---------------------------- MODULE Spec2Model ----------------------------
(***************************************************************************)
(* Model of dolomite_engine: the batch padding engine (_pad), the model    *)
(* wrapper's construction and its prepare_batch / generate /                *)
(* get_model_tflops (src/dolomite_engine/model_wrapper/base.py), and the    *)
(* pretraining program: main, train and evaluate                            *)
(* (src/dolomite_engine/pretrain.py).                                       *)
(*                                                                         *)
(* Python values are modelled as follows:                                   *)
(*   list of token lists   sequence of sequences of integers               *)
(*   None                  a has_... flag beside the value (the value is    *)
(*                         then the empty sequence)                         *)
(*   raised exception      result.status names the exception class         *)
(*   enum members          strings                                          *)
(***************************************************************************)
EXTENDS Integers, Sequences, FiniteSets, TLC

VARIABLES
    mode,                          \* self.mode
    padding_side,                  \* self.padding_side
    is_encoder_decoder,            \* self.is_encoder_decoder
    loss_mask,                     \* self.loss_mask
    use_padding_free_transformer,  \* self.use_padding_free_transformer
    eos_token_id,                  \* self.tokenizer.eos_token_id
    op,                            \* the operation called
    args,                          \* its arguments
    result,                        \* what it returned or raised (NoCall: pending)
    pc,                            \* main and train: the statement control is at
                                   \* ("done": train has left its loop and
                                   \* returned or raised; "raised": it raised
                                   \* before or inside the loop)
    starting_iteration,            \* main: starting_iteration
    consumed_samples,              \* main: what the dataloaders are constructed with
    global_step,                   \* train: global_step
    steps_since_start_time,        \* train: steps_since_start_time
    start_time,                    \* train: start_time, read off a logical clock
    metrics_tracker,               \* train: metrics_tracker
    model_training,                \* model.training, set by model.train() / model.eval()
    events,                        \* the calls made to collaborators, in order
    ranks,                         \* evaluate run by a process group: each rank's state
    sent,                          \* what the first rank of each tensor parallel
                                   \* group has broadcast
    neft                           \* the forward of the input embeddings is
                                   \* overridden by _noisy_forward

vars == <<mode, padding_side, is_encoder_decoder, loss_mask,
          use_padding_free_transformer, eos_token_id, op, args, result,
          pc, starting_iteration, consumed_samples, global_step,
          steps_since_start_time, start_time, metrics_tracker, model_training,
          events, ranks, sent, neft>>

rank_vars == <<ranks, sent>>

train_vars == <<pc, starting_iteration, consumed_samples, global_step,
                steps_since_start_time, start_time, metrics_tracker,
                model_training, events>>

wrapper_vars == <<mode, padding_side, is_encoder_decoder, loss_mask,
                  use_padding_free_transformer, eos_token_id, neft>>

----------------------------------------------------------------------------
(* Bounds of the model. *)

\* rows of a batch: 1..MaxRows
MaxRows == 2
\* tokens of a row: 1..MaxLen
MaxLen == 3
\* tokens the model generates for each row: 1..MaxNewTokens
MaxNewTokens == 2
\* batch size, sequence length, hidden size and feed-forward size: 1..MaxDim
MaxDim == 3
\* num_training_steps: 0..MaxSteps; the step of a checkpoint: 1..MaxSteps
MaxSteps == 3
\* log_interval, eval_interval and save_interval: 1..MaxInterval
MaxInterval == 2
\* dataloaders of a list: 0..MaxLoaders
MaxLoaders == 2
\* eval_steps: 1..MaxEvalSteps
MaxEvalSteps == 2

----------------------------------------------------------------------------
(* Enumerations and constants of the program. *)

labels_mask_value == -100

PaddingSides == {"left", "right"}

\* LossMask has two members; self.loss_mask is None outside training mode.
LossMasks == {"output_only", "no_mask", "None"}

\* Mode members the wrapper is constructed with.
Modes == {"training", "inference", "export"}

----------------------------------------------------------------------------
(* Python list primitives. *)

Max2(a, b) == IF a >= b THEN a ELSE b

Min2(a, b) == IF a <= b THEN a ELSE b

\* [x] * n : the empty list when n <= 0
Rep(x, n) == [k \in 1..Max2(n, 0) |-> x]

\* max(list(map(len, rows))), rows non-empty
MaxLength(rows) == CHOOSE m \in {Len(rows[i]) : i \in 1..Len(rows)} :
                       \A i \in 1..Len(rows) : Len(rows[i]) <= m

\* sum of a list of integers
RECURSIVE SumSeq(_)
SumSeq(s) == IF s = <<>> THEN 0 ELSE Head(s) + SumSeq(Tail(s))

\* whether every row of a nested list has the same length: torch.tensor accepts
\* exactly these nested lists and raises ValueError on the others
IsRectangular(rows) == \A i, j \in 1..Len(rows) : Len(rows[i]) = Len(rows[j])

----------------------------------------------------------------------------
(* Batches.  _pad never inspects a token, it only moves rows around, so a   *)
(* batch is drawn by its shape (the number of rows, each row's input and    *)
(* output length) and every token is made distinct: token k of input row i  *)
(* is 10*i + k.  As in the repository's datasets for decoder-only models an *)
(* output row continues to the end of its input row; an output row longer   *)
(* than its input row starts before the input row's first token.            *)

InRow(i, n) == [k \in 1..n |-> 10 * i + k]

OutRow(i, n, m) == [j \in 1..m |-> 10 * i + (n - m + j)]

InputsOf(inLens) == [i \in 1..Len(inLens) |-> InRow(i, inLens[i])]

OutputsOf(inLens, outLens) ==
    [i \in 1..Len(inLens) |-> OutRow(i, inLens[i], outLens[i])]

\* the length vectors of a batch of n rows
LenVectors(n) == [1..n -> 1..MaxLen]

\* (inputs, outputs) pairs, outputs present
BatchesWithOutputs ==
    { [inputs |-> InputsOf(il), has_outputs |-> TRUE, outputs |-> OutputsOf(il, ol)] :
        <<il, ol>> \in UNION { LenVectors(n) \X LenVectors(n) : n \in 1..MaxRows } }

\* inputs alone, outputs is None
BatchesWithoutOutputs ==
    { [inputs |-> InputsOf(il), has_outputs |-> FALSE, outputs |-> <<>>] :
        il \in UNION { LenVectors(n) : n \in 1..MaxRows } }

\* the batch of the specification's worked example of padding-free labels
ExampleBatch ==
    [inputs |-> << <<1, 2, 3, 4, 5>> >>, has_outputs |-> TRUE,
     outputs |-> << <<4, 5>> >>]

Batches == BatchesWithOutputs \cup BatchesWithoutOutputs \cup {ExampleBatch}

\* the end-of-sequence ids tried: one that is no token of any batch, and one
\* that is the first token of the first input row
EosTokenIds == {0, 11}

----------------------------------------------------------------------------
(* _pad *)

Raise(exc) ==
    [status |-> exc, input_ids |-> <<>>, has_attention_mask |-> FALSE,
     attention_mask |-> <<>>, has_labels |-> FALSE, labels |-> <<>>,
     tensorized |-> FALSE]

Lists(input_ids, has_am, am, has_labels, labels) ==
    [status |-> "ok", input_ids |-> input_ids, has_attention_mask |-> has_am,
     attention_mask |-> am, has_labels |-> has_labels, labels |-> labels,
     tensorized |-> FALSE]

\* mutant of LeftPadIds: one pad token too many
LeftPadIds_Extra(inputs, pad_token_id, m) ==
    [i \in 1..Len(inputs) |-> Rep(pad_token_id, m - Len(inputs[i]) + 1) \o inputs[i]]

\* left padding of the inputs to width m
LeftPadIds(inputs, pad_token_id, m) ==
    [i \in 1..Len(inputs) |-> Rep(pad_token_id, m - Len(inputs[i])) \o inputs[i]]

\* mutant of LeftPadMask: the mask of right padding used under left padding
LeftPadMask_RightAligned(inputs, m) ==
    [i \in 1..Len(inputs) |-> Rep(1, Len(inputs[i])) \o Rep(0, m - Len(inputs[i]))]

LeftPadMask(inputs, m) ==
    [i \in 1..Len(inputs) |-> Rep(0, m - Len(inputs[i])) \o Rep(1, Len(inputs[i]))]

\* right padding of the inputs to width m
RightPadIds(inputs, pad_token_id, m) ==
    [i \in 1..Len(inputs) |-> inputs[i] \o Rep(pad_token_id, m - Len(inputs[i]))]

RightPadMask(inputs, m) ==
    [i \in 1..Len(inputs) |-> Rep(1, Len(inputs[i])) \o Rep(0, m - Len(inputs[i]))]

\* mutant of EncDecLabels: the labels padded on the left
EncDecLabels_LeftPadded(outputs) ==
    LET output_max_length == MaxLength(outputs)
    IN  [i \in 1..Len(outputs) |->
            Rep(labels_mask_value, output_max_length - Len(outputs[i])) \o outputs[i]]

\* encoder-decoder labels: right padding of the outputs with the sentinel
EncDecLabels(outputs) ==
    LET output_max_length == MaxLength(outputs)
    IN  [i \in 1..Len(outputs) |->
            outputs[i] \o Rep(labels_mask_value, output_max_length - Len(outputs[i]))]

\* mutant of PackedOutputOnlyLabels: the prefix measured from the longest input
PackedOutputOnlyLabels_FromMax(inputs, outputs) ==
    [i \in 1..Min2(Len(inputs), Len(outputs)) |->
        Rep(labels_mask_value, MaxLength(inputs) - Len(outputs[i])) \o outputs[i]]

\* padding-free labels under output_only; zip stops at the shorter list
PackedOutputOnlyLabels(inputs, outputs) ==
    [i \in 1..Min2(Len(inputs), Len(outputs)) |->
        Rep(labels_mask_value, Len(inputs[i]) - Len(outputs[i])) \o outputs[i]]

\* mutant of LeftOutputOnlyLabels: the sentinels put after the output
LeftOutputOnlyLabels_RightAligned(outputs, max_length) ==
    [i \in 1..Len(outputs) |->
        outputs[i] \o Rep(labels_mask_value, max_length - Len(outputs[i]))]

\* decoder-only, left padding, output_only
LeftOutputOnlyLabels(outputs, max_length) ==
    [i \in 1..Len(outputs) |->
        Rep(labels_mask_value, max_length - Len(outputs[i])) \o outputs[i]]

\* mutant of RightOutputOnlyLabels: the sentinel suffix measured from the output
RightOutputOnlyLabels_SuffixFromOutput(inputs, outputs, max_length) ==
    [i \in 1..Min2(Len(inputs), Len(outputs)) |->
        Rep(labels_mask_value, Len(inputs[i]) - Len(outputs[i]))
        \o outputs[i]
        \o Rep(labels_mask_value, max_length - Len(outputs[i]))]

\* decoder-only, right padding, output_only; zip stops at the shorter list
RightOutputOnlyLabels(inputs, outputs, max_length) ==
    [i \in 1..Min2(Len(inputs), Len(outputs)) |->
        Rep(labels_mask_value, Len(inputs[i]) - Len(outputs[i]))
        \o outputs[i]
        \o Rep(labels_mask_value, max_length - Len(inputs[i]))]

\* mutant of PadEncoderDecoder: the loss-mask assertion left out
PadEncoderDecoder_NoAssert(inputs, has_outputs, outputs, pad_token_id, side, lm) ==
    LET input_max_length == MaxLength(inputs)
        input_ids == IF side = "left"
                     THEN LeftPadIds(inputs, pad_token_id, input_max_length)
                     ELSE RightPadIds(inputs, pad_token_id, input_max_length)
        attention_mask == IF side = "left"
                          THEN LeftPadMask(inputs, input_max_length)
                          ELSE RightPadMask(inputs, input_max_length)
    IN  IF has_outputs
        THEN Lists(input_ids, TRUE, attention_mask, TRUE, EncDecLabels(outputs))
        ELSE Lists(input_ids, TRUE, attention_mask, FALSE, <<>>)

\* the encoder-decoder branch
PadEncoderDecoder(inputs, has_outputs, outputs, pad_token_id, side, lm) ==
    LET input_max_length == MaxLength(inputs)
        input_ids == IF side = "left"
                     THEN LeftPadIds(inputs, pad_token_id, input_max_length)
                     ELSE RightPadIds(inputs, pad_token_id, input_max_length)
        attention_mask == IF side = "left"
                          THEN LeftPadMask(inputs, input_max_length)
                          ELSE RightPadMask(inputs, input_max_length)
    IN  IF has_outputs
        THEN IF lm = "output_only"
             THEN Lists(input_ids, TRUE, attention_mask, TRUE, EncDecLabels(outputs))
             ELSE Raise("AssertionError")
        ELSE Lists(input_ids, TRUE, attention_mask, FALSE, <<>>)

\* the decoder-only padding-free branch
PadPacked(inputs, has_outputs, outputs, lm) ==
    IF lm = "output_only"
    THEN IF has_outputs
         THEN Lists(inputs, FALSE, <<>>, TRUE, PackedOutputOnlyLabels(inputs, outputs))
         ELSE Raise("TypeError")      \* zip(inputs, None)
    ELSE IF lm = "no_mask"
         THEN Lists(inputs, FALSE, <<>>, TRUE, inputs)
         ELSE Raise("ValueError")

\* the decoder-only padded branch
PadDecoderOnly(inputs, has_outputs, outputs, pad_token_id, side, lm) ==
    LET max_length == MaxLength(inputs)
        input_ids == IF side = "left"
                     THEN LeftPadIds(inputs, pad_token_id, max_length)
                     ELSE RightPadIds(inputs, pad_token_id, max_length)
        attention_mask == IF side = "left"
                          THEN LeftPadMask(inputs, max_length)
                          ELSE RightPadMask(inputs, max_length)
    IN  IF has_outputs
        THEN IF lm = "output_only"
             THEN Lists(input_ids, TRUE, attention_mask, TRUE,
                        IF side = "left"
                        THEN LeftOutputOnlyLabels(outputs, max_length)
                        ELSE RightOutputOnlyLabels(inputs, outputs, max_length))
             ELSE IF lm = "no_mask"
                  THEN Lists(input_ids, TRUE, attention_mask, TRUE, inputs)
                  ELSE Raise("ValueError")
        ELSE Lists(input_ids, TRUE, attention_mask, FALSE, <<>>)

\* the nested lists _pad has built when it reaches its final step
PadLists(inputs, has_outputs, outputs, pad_token_id, side, encdec, lm, packed) ==
    IF encdec
    THEN PadEncoderDecoder(inputs, has_outputs, outputs, pad_token_id, side, lm)
    ELSE IF packed
         THEN PadPacked(inputs, has_outputs, outputs, lm)
         ELSE PadDecoderOnly(inputs, has_outputs, outputs, pad_token_id, side, lm)

\* the final step: torch.tensor of each nested list, unless padding-free
Tensorize(r, packed) ==
    IF r.status # "ok" \/ packed
    THEN r
    ELSE IF /\ IsRectangular(r.input_ids)
            /\ IsRectangular(r.attention_mask)
            /\ (r.has_labels => IsRectangular(r.labels))
         THEN [r EXCEPT !.tensorized = TRUE]
         ELSE Raise("ValueError")

_pad(inputs, has_outputs, outputs, pad_token_id, side, encdec, lm, packed) ==
    Tensorize(PadLists(inputs, has_outputs, outputs, pad_token_id, side, encdec,
                       lm, packed),
              packed)

----------------------------------------------------------------------------
(* The padding engine called on its own. *)

NoCall == [status |-> "none"]

\* no process group is running evaluate
NoRanks ==
    /\ ranks = <<>>
    /\ sent = <<>>

\* no training program is running
NoTrain ==
    /\ pc = "none"
    /\ starting_iteration = 0
    /\ consumed_samples = 0
    /\ global_step = 0
    /\ steps_since_start_time = 0
    /\ start_time = 0
    /\ metrics_tracker = <<>>
    /\ model_training = FALSE
    /\ events = <<>>
    /\ NoRanks

\* every argument tuple of _pad within the bounds
PadArgs ==
    { [inputs |-> b.inputs, has_outputs |-> b.has_outputs, outputs |-> b.outputs,
       pad_token_id |-> p, padding_side |-> side, is_encoder_decoder |-> encdec,
       loss_mask |-> lm, use_padding_free_transformer |-> packed] :
        b \in Batches, p \in EosTokenIds, side \in PaddingSides,
        encdec \in BOOLEAN, lm \in LossMasks, packed \in BOOLEAN }

\* no wrapper is involved: a call of the module-level function is pending
InitPad ==
    /\ mode = "none"
    /\ padding_side = "none"
    /\ is_encoder_decoder = FALSE
    /\ loss_mask = "None"
    /\ use_padding_free_transformer = FALSE
    /\ eos_token_id = 0
    /\ neft = FALSE
    /\ op = "_pad"
    /\ args \in PadArgs
    /\ result = NoCall
    /\ NoTrain

PadCall ==
    /\ op = "_pad"
    /\ result = NoCall
    /\ result' = _pad(args.inputs, args.has_outputs, args.outputs, args.pad_token_id,
                      args.padding_side, args.is_encoder_decoder, args.loss_mask,
                      args.use_padding_free_transformer)
    /\ UNCHANGED <<wrapper_vars, rank_vars, op, args, train_vars>>

NextPad == PadCall

SpecPad == InitPad /\ [][NextPad]_vars

----------------------------------------------------------------------------
(* ModelWrapper: the fields prepare_batch and generate read. *)

\* self.loss_mask as __init__ leaves it: the configured loss mask in training
\* mode, None otherwise
LossMaskAfterInit(m, lm_arg) == IF m = "training" THEN lm_arg ELSE "None"

\* the assertion __init__ makes on the loss mask: output_only for an
\* encoder-decoder model in training mode
LossMaskAssertion(m, encdec, lm_arg) ==
    (m = "training" /\ encdec) => lm_arg = "output_only"

\* a wrapper as a construction that raised nothing leaves it
WrapperConstructed(ms) ==
    \E m \in ms, lm_arg \in {"output_only", "no_mask"} :
        /\ mode = m
        /\ is_encoder_decoder \in BOOLEAN
        /\ LossMaskAssertion(m, is_encoder_decoder, lm_arg)
        /\ loss_mask = LossMaskAfterInit(m, lm_arg)
        /\ padding_side \in PaddingSides
        /\ use_padding_free_transformer \in BOOLEAN
        /\ eos_token_id \in EosTokenIds
        /\ neft = FALSE

----------------------------------------------------------------------------
(* ModelWrapper.__init__ called on its own.  calls lists the collaborators  *)
(* called, in order.                                                        *)

\* args.model_args.attention_implementation: a member of AttentionImplementation
\* or None
AttentionImplementations == {"eager", "sdpa", "flash_attention_2", "None"}

\* args.research_args.neft_alpha: None or a number
NeftAlphas ==
    {[is_none |-> TRUE, value |-> 0]}
      \cup {[is_none |-> FALSE, value |-> v] : v \in {-1, 0, 5}}

\* the arguments of a construction: supported is what
\* is_padding_free_transformer_supported answers for the model class and type,
\* has_tokenizer_name says that a tokenizer name or a model name is given,
\* neft_alpha is args.research_args.neft_alpha, has_get_input_embeddings says
\* that the model has that method
InitArgs ==
    [mode : Modes,
     use_padding_free_transformer : BOOLEAN,
     supported : BOOLEAN,
     attention_implementation : AttentionImplementations,
     is_encoder_decoder : BOOLEAN,
     has_tokenizer_name : BOOLEAN,
     padding_side : PaddingSides,
     eos_token_id : EosTokenIds,
     loss_mask : {"output_only", "no_mask"},
     neft_alpha : NeftAlphas,
     has_get_input_embeddings : BOOLEAN]

\* mutant of PaddingFreeAssertions: the attention implementation is not asserted
PaddingFreeAssertions_ArchitectureOnly(packed, supported, attention) ==
    packed => supported

\* the two assertions made when use_padding_free_transformer is set
PaddingFreeAssertions(packed, supported, attention) ==
    packed => (supported /\ attention = "flash_attention_2")

\* self.mode == Mode.training, and neft_alpha is not None and neft_alpha > 0
WantsNeft(m, neft_alpha) ==
    m = "training" /\ ~neft_alpha.is_none /\ neft_alpha.value > 0

RaiseInit(exc, calls) == [status |-> exc, calls |-> calls, neft |-> FALSE]

__init__(a) ==
    LET config == <<"AutoConfig">>
        asserted == IF a.use_padding_free_transformer
                    THEN config \o <<"is_padding_free_transformer_supported">>
                    ELSE config
        tokenized == asserted \o <<"AutoTokenizer.from_pretrained">>
        built == tokenized \o <<"_setup_model">>
        wants_neft == WantsNeft(a.mode, a.neft_alpha)
        noised == IF wants_neft
                  THEN built \o <<"_override_embedding_forward_with_neft_forward">>
                  ELSE built
    IN  IF ~PaddingFreeAssertions(a.use_padding_free_transformer, a.supported,
                                  a.attention_implementation)
        THEN RaiseInit("AssertionError", asserted)
        ELSE IF ~a.has_tokenizer_name
        THEN RaiseInit("AssertionError", asserted)
        ELSE IF ~LossMaskAssertion(a.mode, a.is_encoder_decoder, a.loss_mask)
        THEN RaiseInit("AssertionError", built)
        ELSE IF wants_neft /\ ~a.has_get_input_embeddings
        THEN RaiseInit("Exception", noised)
        ELSE [status |-> "ok", calls |-> noised, neft |-> wants_neft]

\* no wrapper exists yet: a construction is pending
InitConstruct ==
    /\ mode = "none"
    /\ padding_side = "none"
    /\ is_encoder_decoder = FALSE
    /\ loss_mask = "None"
    /\ use_padding_free_transformer = FALSE
    /\ eos_token_id = 0
    /\ neft = FALSE
    /\ op = "__init__"
    /\ args \in InitArgs
    /\ result = NoCall
    /\ NoTrain

\* a construction that raises leaves no wrapper behind
Construct ==
    /\ op = "__init__"
    /\ result = NoCall
    /\ result' = __init__(args)
    /\ IF result'.status = "ok"
       THEN /\ mode' = args.mode
            /\ padding_side' = args.padding_side
            /\ is_encoder_decoder' = args.is_encoder_decoder
            /\ loss_mask' = LossMaskAfterInit(args.mode, args.loss_mask)
            /\ use_padding_free_transformer' = args.use_padding_free_transformer
            /\ eos_token_id' = args.eos_token_id
            /\ neft' = result'.neft
       ELSE UNCHANGED wrapper_vars
    /\ UNCHANGED <<op, args, train_vars, rank_vars>>

NextConstruct == Construct

SpecConstruct == InitConstruct /\ [][NextConstruct]_vars

----------------------------------------------------------------------------
(* prepare_batch *)

RaiseBatch(exc) ==
    [status |-> exc, keys |-> {}, input_ids |-> <<>>, has_attention_mask |-> FALSE,
     attention_mask |-> <<>>, has_labels |-> FALSE, labels |-> <<>>]

\* the keys of the mapping prepare_batch returns
ResultKeys(m) ==
    {"input_ids", "attention_mask"}
      \cup (IF m = "training" THEN {"labels"} ELSE {})

\* batch is (inputs, outputs) in training mode and the inputs alone otherwise
prepare_batch(m, side, encdec, lm, packed, eos, batch) ==
    IF m = "training" /\ ~batch.has_outputs
    THEN RaiseBatch("AssertionError")
    ELSE LET has_outputs == (m = "training")
             outputs == IF m = "training" THEN batch.outputs ELSE <<>>
             padded == _pad(batch.inputs, has_outputs, outputs, eos, side, encdec,
                            lm, packed)
         IN  IF padded.status # "ok"
             THEN RaiseBatch(padded.status)
             ELSE [status |-> "ok",
                   keys |-> ResultKeys(m),
                   input_ids |-> padded.input_ids,
                   has_attention_mask |-> padded.has_attention_mask,
                   attention_mask |-> padded.attention_mask,
                   has_labels |-> m = "training" /\ padded.has_labels,
                   labels |-> IF m = "training" THEN padded.labels ELSE <<>>]

\* the batches a caller hands to prepare_batch in mode m
BatchesFor(m) == IF m = "training" THEN Batches ELSE BatchesWithoutOutputs

Init ==
    /\ WrapperConstructed(Modes)
    /\ op = "prepare_batch"
    /\ args \in BatchesFor(mode)
    /\ result = NoCall
    /\ NoTrain

PrepareBatch ==
    /\ op = "prepare_batch"
    /\ result = NoCall
    /\ result' = prepare_batch(mode, padding_side, is_encoder_decoder, loss_mask,
                               use_padding_free_transformer, eos_token_id, args)
    /\ UNCHANGED <<wrapper_vars, rank_vars, op, args, train_vars>>

Next == PrepareBatch

Spec == Init /\ [][Next]_vars

----------------------------------------------------------------------------
(* generate *)

\* the tokens the model may emit: the end-of-sequence id and one other token
EmittedTokens(eos) == {eos, 7}

\* what self.model.generate may add to a batch of n rows: one row of new tokens
\* per example, all of one length, each token the end-of-sequence id or not
\* (and the specification's worked example, [5, 7, eos, eos], for one row)
NewTokens(n, eos) ==
    UNION { [1..n -> [1..g -> EmittedTokens(eos)]] : g \in 1..MaxNewTokens }
      \cup (IF n = 1 THEN { << <<5, 7, eos, eos>> >> } ELSE {})

\* the tensor self.model.generate returns: a decoder-only model echoes the padded
\* input_ids before the new tokens, an encoder-decoder model returns the new
\* tokens alone
ModelGenerate(encdec, input_ids, new_tokens) ==
    [i \in 1..Len(input_ids) |->
        IF encdec THEN new_tokens[i] ELSE input_ids[i] \o new_tokens[i]]

\* mutant of TrimColumns: the echoed prompt is kept
TrimColumns_Kept(rows, w) == rows

\* generated[:, w:]
TrimColumns(rows, w) ==
    [i \in 1..Len(rows) |-> SubSeq(rows[i], w + 1, Len(rows[i]))]

\* (row != eos).sum()
CountNotEqual(row, eos) == Cardinality({p \in 1..Len(row) : row[p] # eos})

\* ((generated != eos).sum(dim=-1) + 1).tolist()
NumGeneratedTokens(rows, eos) ==
    [i \in 1..Len(rows) |-> CountNotEqual(rows[i], eos) + 1]

RaiseGenerate(exc, calls) ==
    [status |-> exc, calls |-> calls, generated |-> <<>>,
     num_generated_tokens |-> <<>>]

\* calls lists the collaborators called, in order; the decoding of the trimmed
\* rows to text by the tokenizer is left out
generate(m, side, encdec, lm, packed, eos, batch, new_tokens) ==
    IF packed
    THEN RaiseGenerate("NotImplementedError", <<>>)
    ELSE LET prepared == prepare_batch(m, side, encdec, lm, packed, eos, batch)
         IN  IF prepared.status # "ok"
             THEN RaiseGenerate(prepared.status, <<"prepare_batch">>)
             ELSE LET returned == ModelGenerate(encdec, prepared.input_ids, new_tokens)
                      generated == IF ~encdec
                                   THEN TrimColumns(returned,
                                                    Len(prepared.input_ids[1]))
                                   ELSE returned
                  IN  [status |-> "ok",
                       calls |-> <<"prepare_batch", "model.generate",
                                   "tokenizer.batch_decode">>,
                       generated |-> generated,
                       num_generated_tokens |-> NumGeneratedTokens(generated, eos)]

\* generation is run by a wrapper constructed in inference mode
InitGen ==
    /\ WrapperConstructed({"inference"})
    /\ op = "generate"
    /\ args \in BatchesFor(mode)
    /\ result = NoCall
    /\ NoTrain

Generate ==
    /\ op = "generate"
    /\ result = NoCall
    /\ \E new_tokens \in NewTokens(Len(args.inputs), eos_token_id) :
          /\ args' = [inputs |-> args.inputs, has_outputs |-> args.has_outputs,
                      outputs |-> args.outputs, new_tokens |-> new_tokens]
          /\ result' = generate(mode, padding_side, is_encoder_decoder, loss_mask,
                                use_padding_free_transformer, eos_token_id, args,
                                new_tokens)
    /\ UNCHANGED <<wrapper_vars, rank_vars, op, train_vars>>

NextGen == Generate

SpecGen == InitGen /\ [][NextGen]_vars

----------------------------------------------------------------------------
(* get_model_tflops: the forward terms.  attention_flops holds the quotient *)
(* k / n, so the attention and forward terms are kept multiplied by n.      *)

\* mutant of mlp_flops: the gated term added whatever the activation
mlp_flops_AlwaysGated(b, s, h, f, glu) == 4 * b * s * h * f + 2 * b * s * h * f

\* glu is is_glu(self.config.activation_function)
mlp_flops(b, s, h, f, glu) ==
    4 * b * s * h * f + (IF glu THEN 2 * b * s * h * f ELSE 0)

\* n * attention_flops
attention_flops_times_n(b, s, h, n, k) == 4 * b * s * h * (h * (n + k) + s * n)

\* n * forward_flops
forward_flops_times_n(b, s, h, f, n, k, glu) ==
    attention_flops_times_n(b, s, h, n, k) + n * mlp_flops(b, s, h, f, glu)

\* head counts tried: n heads, k key-value heads
HeadCounts == {<<1, 1>>, <<2, 1>>, <<2, 2>>}

TflopsArgs ==
    { [batch_size |-> b, sequence_length |-> s, n_embd |-> h, n_inner |-> f,
       n_head |-> nk[1], num_key_value_heads |-> nk[2], is_glu |-> glu] :
        b \in 1..MaxDim, s \in 1..MaxDim, h \in 1..MaxDim, f \in 1..MaxDim,
        nk \in HeadCounts, glu \in BOOLEAN }

InitFlops ==
    /\ WrapperConstructed({"training"})
    /\ padding_side = "left"
    /\ ~is_encoder_decoder
    /\ loss_mask = "no_mask"
    /\ ~use_padding_free_transformer
    /\ eos_token_id = 0
    /\ op = "get_model_tflops"
    /\ args \in TflopsArgs
    /\ result = NoCall
    /\ NoTrain

GetModelTflops ==
    /\ op = "get_model_tflops"
    /\ result = NoCall
    /\ result' =
          [status |-> "ok",
           mlp_flops |-> mlp_flops(args.batch_size, args.sequence_length,
                                   args.n_embd, args.n_inner, args.is_glu),
           forward_flops_times_n |->
               forward_flops_times_n(args.batch_size, args.sequence_length,
                                     args.n_embd, args.n_inner, args.n_head,
                                     args.num_key_value_heads, args.is_glu)]
    /\ UNCHANGED <<wrapper_vars, rank_vars, op, args, train_vars>>

NextFlops == GetModelTflops

SpecFlops == InitFlops /\ [][NextFlops]_vars

----------------------------------------------------------------------------
(* pretrain.py: the calls made to collaborators are recorded in events.     *)

\* a call of kind k; the fields a kind does not use keep these values
Event(k) ==
    [kind |-> k, step |-> 0, on |-> "", context |-> "", loader |-> 0, group |-> 0,
     training |-> FALSE, summed |-> <<>>, divisor |-> 0, samples |-> 0,
     noised |-> FALSE]

\* the group name None; a named group is its position in the configuration
NoGroupName == 0

\* a list of dataloaders or None; a dataloader is its position in the list
NoDataloaders == [is_none |-> TRUE, loaders |-> <<>>]

Dataloaders(n) == [is_none |-> FALSE, loaders |-> [k \in 1..n |-> k]]

DataloaderLists == {NoDataloaders} \cup {Dataloaders(n) : n \in 0..MaxLoaders}

\* mutant of IsNoneOrEmpty: an empty list is not recognised
IsNoneOrEmpty_NoneOnly(dataloaders) == dataloaders.is_none

\* val_dataloaders is None or len(val_dataloaders) == 0
IsNoneOrEmpty(dataloaders) == dataloaders.is_none \/ Len(dataloaders.loaders) = 0

\* mutant of NeftForward: the noise is added in evaluation mode too
NeftForward_Always(overridden, training) == overridden

\* an embedding lookup adds noise: the forward is _noisy_forward and
\* self.training holds
NeftForward(overridden, training) == overridden /\ training

\* model.train() and model.eval()
ModelTrain(training) == TRUE

\* mutant of ModelEval: the model is left in the mode it was in
ModelEval_Skipped(training) == training

ModelEval(training) == FALSE

\* a MetricsTrackingDict is the sequence of the steps whose metrics it is the
\* sum of; dividing it is recorded beside it, where it is emitted
EmptyTracker == <<>>

Accumulate(tracker, k) == Append(tracker, k)

----------------------------------------------------------------------------
(* evaluate, as one rank runs it.  dist is the rank's place in its tensor   *)
(* parallel group and first_rank_is_none what the first rank of the group   *)
(* computes and broadcasts.                                                 *)

\* the calls of one pass over the dataloader at position j: eval_steps times a
\* batch fetched and a forward pass made, then the all-reduce and the emission
GroupEvents(j, group_name, global_step_arg, eval_steps, training) ==
    [i \in 1..(2 * eval_steps + 2) |->
        IF i <= 2 * eval_steps
        THEN IF i % 2 = 1
             THEN [Event("get_next_batch") EXCEPT !.loader = j, !.step = (i + 1) \div 2]
             ELSE [Event("forward") EXCEPT !.loader = j, !.step = i \div 2,
                                          !.training = training,
                                          !.noised = NeftForward(neft, training)]
        ELSE IF i = 2 * eval_steps + 1
        THEN [Event("all_reduce_metrics_tracker") EXCEPT !.loader = j]
        ELSE [Event("track_val_metrics") EXCEPT
                 !.context = "val", !.loader = j, !.group = group_name, !.step = global_step_arg,
                 !.summed = [k \in 1..eval_steps |-> k], !.divisor = eval_steps]]

\* the length of zip(group_names, val_dataloaders)
ZipLength(group_names, loaders) == Min2(Len(group_names), Len(loaders))

\* the calls of the loop over zip(group_names, val_dataloaders)
RECURSIVE LoopEvents(_, _, _, _, _)
LoopEvents(n, group_names, global_step_arg, eval_steps, training) ==
    IF n = 0 THEN <<>>
    ELSE LoopEvents(n - 1, group_names, global_step_arg, eval_steps, training)
           \o GroupEvents(n, group_names[n], global_step_arg, eval_steps, training)

evaluate(val_dataloaders, training, global_step_arg, eval_steps, group_names, dist) ==
    LET is_val_dataloader_none ==
            IF dist.tp_world_size > 1
            THEN IF dist.tp_rank = 0 THEN IsNoneOrEmpty(val_dataloaders)
                 ELSE dist.first_rank_is_none
            ELSE IsNoneOrEmpty(val_dataloaders)
        told == IF dist.tp_world_size > 1
                THEN <<Event("broadcast_object")>> ELSE <<>>
        evaluating == ModelEval(training)
        n == ZipLength(group_names, val_dataloaders.loaders)
    IN  IF is_val_dataloader_none
        THEN [status |-> "ok", events |-> told, training |-> training, groups |-> 0,
              is_val_dataloader_none |-> TRUE]
        ELSE IF val_dataloaders.is_none
        THEN \* zip(group_names, None)
             [status |-> "TypeError", events |-> told \o <<Event("model.eval")>>,
              training |-> evaluating, groups |-> 0,
              is_val_dataloader_none |-> FALSE]
        ELSE [status |-> IF n = 0 THEN "UnboundLocalError" ELSE "ok",
              events |-> told \o <<Event("model.eval")>>
                           \o LoopEvents(n, group_names, global_step_arg,
                                         eval_steps, evaluating)
                           \o <<Event("model.train")>>,
              training |-> ModelTrain(evaluating),
              groups |-> n,
              is_val_dataloader_none |-> FALSE]

\* a tensor parallel group of one rank, and the ranks of a group of two
Dists ==
    {[tp_world_size |-> 1, tp_rank |-> 0, first_rank_is_none |-> FALSE]}
      \cup {[tp_world_size |-> 2, tp_rank |-> 0, first_rank_is_none |-> FALSE]}
      \cup {[tp_world_size |-> 2, tp_rank |-> 1, first_rank_is_none |-> b] :
               b \in BOOLEAN}

\* [None], or the names of 1..MaxLoaders groups
GroupNameLists ==
    {<<NoGroupName>>} \cup {[k \in 1..n |-> k] : n \in 1..MaxLoaders}

EvaluateArgs ==
    [val_dataloaders : DataloaderLists,
     global_step : 0..MaxSteps,
     eval_steps : 1..MaxEvalSteps,
     group_names : GroupNameLists,
     dist : Dists]

\* the wrapper main is handed by get_model: a decoder-only model in training
\* mode, with neft_alpha left at None
TrainingWrapper ==
    /\ mode = "training"
    /\ padding_side = "left"
    /\ is_encoder_decoder = FALSE
    /\ loss_mask = "no_mask"
    /\ use_padding_free_transformer = FALSE
    /\ eos_token_id = 0
    /\ neft = FALSE

\* train has called model.train() before it calls evaluate
InitEval ==
    /\ TrainingWrapper
    /\ op = "evaluate"
    /\ args \in EvaluateArgs
    /\ result = NoCall
    /\ pc = "none"
    /\ starting_iteration = 0
    /\ consumed_samples = 0
    /\ global_step = 0
    /\ steps_since_start_time = 0
    /\ start_time = 0
    /\ metrics_tracker = EmptyTracker
    /\ model_training = ModelTrain(FALSE)
    /\ events = <<>>
    /\ NoRanks

Evaluate ==
    /\ op = "evaluate"
    /\ result = NoCall
    /\ LET returned == evaluate(args.val_dataloaders, model_training,
                                args.global_step, args.eval_steps,
                                args.group_names, args.dist)
       IN  /\ result' = [status |-> returned.status, groups |-> returned.groups]
           /\ events' = events \o returned.events
           /\ model_training' = returned.training
    /\ UNCHANGED <<wrapper_vars, rank_vars, op, args, pc, starting_iteration, consumed_samples,
                   global_step, steps_since_start_time, start_time, metrics_tracker>>

NextEval == Evaluate

SpecEval == InitEval /\ [][NextEval]_vars

----------------------------------------------------------------------------
(* evaluate, called by every rank of the process group together.  Rank r of *)
(* 1..world belongs to the tensor parallel group (r - 1) \div tp, whose      *)
(* first rank broadcasts; the all-reduce of the metrics is over the whole   *)
(* group, so a rank inside it waits for every other rank to enter it.       *)

\* tensor parallel and data parallel world sizes
Topologies == {<<1, 1>>, <<1, 2>>, <<2, 1>>, <<2, 2>>}

WorldSize(a) == a.tp_world_size * a.dp_world_size

RanksOf(a) == 1..WorldSize(a)

\* ProcessGroupManager.get_tensor_parallel_rank() of rank r
TensorParallelRank(a, r) == (r - 1) % a.tp_world_size

\* the tensor parallel group of rank r
TensorParallelGroup(a, r) == (r - 1) \div a.tp_world_size

\* ProcessGroupManager.get_tensor_parallel_first_rank() of rank r
TensorParallelFirstRank(a, r) == TensorParallelGroup(a, r) * a.tp_world_size + 1

\* the ranks an all-reduce of the metrics waits for
AllReduceGroup(a) == RanksOf(a)

\* a rank that has not entered evaluate
RankAtStart ==
    [pc |-> "start", decided |-> FALSE, is_val_dataloader_none |-> FALSE,
     status |-> "none", training |-> ModelTrain(FALSE), todo |-> <<>>, log |-> <<>>]

\* nothing has been broadcast in a group
NothingSent == [sent |-> FALSE, value |-> FALSE]

\* every rank is about to call evaluate, each with its own list of dataloaders
InitRanks ==
    /\ TrainingWrapper
    /\ op = "evaluate_all"
    /\ \E topology \in Topologies, group_names \in GroupNameLists :
          \E lists \in [1..(topology[1] * topology[2]) -> DataloaderLists] :
             args = [tp_world_size |-> topology[1], dp_world_size |-> topology[2],
                     val_dataloaders |-> lists, global_step |-> 0,
                     eval_steps |-> MaxEvalSteps, group_names |-> group_names]
    /\ result = NoCall
    /\ pc = "none"
    /\ starting_iteration = 0
    /\ consumed_samples = 0
    /\ global_step = 0
    /\ steps_since_start_time = 0
    /\ start_time = 0
    /\ metrics_tracker = EmptyTracker
    /\ model_training = ModelTrain(FALSE)
    /\ events = <<>>
    /\ ranks = [r \in RanksOf(args) |-> RankAtStart]
    /\ sent = [g \in 0..(args.dp_world_size - 1) |-> NothingSent]

\* mutant of Received: a sibling rank keeps what its own list says
Received_Local(dataloaders, channel) == IsNoneOrEmpty(dataloaders)

\* Communication.broadcast_object on a rank that is not the source returns
\* the object the source sent
BroadcastObject(channel) == channel.value

\* is_val_dataloader_none = Communication.broadcast_object(...): a rank that
\* is not the source holds what the broadcast returned
Received(dataloaders, channel) == BroadcastObject(channel)

\* the position of the first all-reduce in a sequence of calls, 0 if none
FirstAllReduce(calls) ==
    LET at == {i \in 1..Len(calls) : calls[i].kind = "all_reduce_metrics_tracker"}
    IN  IF at = {} THEN 0 ELSE CHOOSE i \in at : \A j \in at : i <= j

\* rank r runs evaluate up to `if is_val_dataloader_none: return`; on a rank
\* that is not the source the broadcast returns once the source has sent
EnterEvaluate(r) ==
    /\ op = "evaluate_all"
    /\ r \in RanksOf(args)
    /\ ranks[r].pc = "start"
    /\ LET g == TensorParallelGroup(args, r)
           source == TensorParallelRank(args, r) = 0
           dist == [tp_world_size |-> args.tp_world_size,
                    tp_rank |-> TensorParallelRank(args, r),
                    first_rank_is_none |->
                        Received(args.val_dataloaders[r], sent[g])]
           run == evaluate(args.val_dataloaders[r], ranks[r].training,
                           args.global_step, args.eval_steps, args.group_names, dist)
           told == IF args.tp_world_size > 1 THEN 1 ELSE 0
       IN  /\ (args.tp_world_size > 1 /\ ~source) => sent[g].sent
           /\ sent' = IF args.tp_world_size > 1 /\ source
                      THEN [sent EXCEPT ![g] =
                               [sent |-> TRUE, value |-> run.is_val_dataloader_none]]
                      ELSE sent
           /\ ranks' = [ranks EXCEPT ![r] =
                 [pc |-> IF run.is_val_dataloader_none THEN "returned" ELSE "running",
                  decided |-> TRUE,
                  is_val_dataloader_none |-> run.is_val_dataloader_none,
                  status |-> run.status,
                  training |-> IF run.is_val_dataloader_none THEN run.training
                               ELSE ModelEval(ranks[r].training),
                  todo |-> SubSeq(run.events, told + 1, Len(run.events)),
                  log |-> SubSeq(run.events, 1, told)]]
    /\ UNCHANGED <<wrapper_vars, op, args, result, train_vars>>

\* rank r runs on to its next all-reduce, or to the end of evaluate
RunEvaluate(r) ==
    /\ op = "evaluate_all"
    /\ r \in RanksOf(args)
    /\ ranks[r].pc = "running"
    /\ LET me == ranks[r]
           todo == me.todo
           k == FirstAllReduce(todo)
       IN  ranks' = [ranks EXCEPT ![r] =
              IF k = 0
              THEN [me EXCEPT !.pc = IF me.status = "ok" THEN "returned" ELSE "raised",
                              !.training = IF todo # <<>> /\ todo[Len(todo)].kind = "model.train"
                                           THEN ModelTrain(me.training) ELSE me.training,
                              !.log = me.log \o todo,
                              !.todo = <<>>]
              ELSE [me EXCEPT !.pc = "all_reduce",
                              !.log = me.log \o SubSeq(todo, 1, k - 1),
                              !.todo = SubSeq(todo, k, Len(todo))]]
    /\ UNCHANGED <<wrapper_vars, op, args, result, train_vars, sent>>

\* the all-reduce completes once every rank of its group is inside it
AllReduce ==
    /\ op = "evaluate_all"
    /\ \A r \in AllReduceGroup(args) : ranks[r].pc = "all_reduce"
    /\ ranks' = [r \in RanksOf(args) |->
                    [ranks[r] EXCEPT !.pc = "running",
                                     !.log = Append(@, ranks[r].todo[1]),
                                     !.todo = Tail(@)]]
    /\ UNCHANGED <<wrapper_vars, op, args, result, train_vars, sent>>

NextRanks ==
    \/ \E r \in RanksOf(args) : EnterEvaluate(r)
    \/ \E r \in RanksOf(args) : RunEvaluate(r)
    \/ AllReduce

SpecRanks == InitRanks /\ [][NextRanks]_vars

----------------------------------------------------------------------------
(* main and train, as one rank runs them. *)

\* micro_batch_size, gradient_accumulation_steps and the data parallel world size
BatchShapes == {<<1, 1, 1>>, <<2, 3, 5>>}

\* the samples of one step
SamplesPerStep(a) ==
    a.micro_batch_size * a.gradient_accumulation_steps * a.dp_world_size

\* args.load_args is None, or a checkpoint of an earlier run of the same
\* configuration is loaded: saved at step S, its metadata as line 222 writes it
Launches(shape) ==
    {[has_load_args |-> FALSE, load_dataloader_state |-> FALSE,
      checkpoint |-> [step |-> 0, consumed_samples |-> 0]]}
      \cup {[has_load_args |-> TRUE, load_dataloader_state |-> flag,
             checkpoint |-> [step |-> S,
                             consumed_samples |-> S * shape[1] * shape[2] * shape[3]]] :
               flag \in BOOLEAN, S \in 1..MaxSteps}

\* the dataloaders get_megatron_gpt_dataloaders hands out and the rank's place
\* in its tensor parallel group
TrainSetups ==
    LET single == [tp_world_size |-> 1, tp_rank |-> 0, first_rank_is_none |-> FALSE]
        second == [tp_world_size |-> 2, tp_rank |-> 1, first_rank_is_none |-> FALSE]
    IN  {[val |-> NoDataloaders, test |-> NoDataloaders, dist |-> single],
         [val |-> Dataloaders(1), test |-> Dataloaders(1), dist |-> single],
         [val |-> Dataloaders(1), test |-> NoDataloaders, dist |-> single],
         [val |-> Dataloaders(MaxLoaders), test |-> Dataloaders(MaxLoaders),
          dist |-> single],
         [val |-> NoDataloaders, test |-> NoDataloaders, dist |-> second]}

\* evaluation during training: disabled, and then train reads neither
\* eval_interval nor a dataloader of the validation and test sets, or enabled
Evaluations ==
    {[eval_during_training |-> FALSE, eval_interval |-> 1,
      setup |-> [val |-> Dataloaders(1), test |-> Dataloaders(1),
                 dist |-> [tp_world_size |-> 1, tp_rank |-> 0,
                           first_rank_is_none |-> FALSE]]]}
      \cup [eval_during_training : {TRUE}, eval_interval : 1..MaxInterval,
            setup : TrainSetups]

\* the configuration of a run
TrainingArgs(n, li, ei, si, edt, named, shape, launch, setup) ==
    [num_training_steps |-> n,
     log_interval |-> li, eval_interval |-> ei, save_interval |-> si,
     eval_during_training |-> edt,
     has_val_weighted_split_paths |-> named,
     eval_steps |-> MaxEvalSteps,
     micro_batch_size |-> shape[1], gradient_accumulation_steps |-> shape[2],
     dp_world_size |-> shape[3],
     has_load_args |-> launch.has_load_args,
     load_dataloader_state |-> launch.load_dataloader_state,
     checkpoint |-> launch.checkpoint,
     val_dataloaders |-> setup.val, test_dataloaders |-> setup.test,
     dist |-> setup.dist]

\* time.perf_counter(), read off the calls made so far
Clock(log) == Len(log)

\* what load_checkpoint_for_training returns: the step the checkpoint was saved
\* at and its metadata
load_checkpoint_for_training(checkpoint) ==
    [starting_iteration |-> checkpoint.step,
     consumed_samples |-> checkpoint.consumed_samples]

\* mutant of DataloaderState: the persisted position is always kept
DataloaderState_Kept(load_dataloader_state, metadata_consumed_samples) ==
    metadata_consumed_samples

\* metadata["consumed_samples"] after the reset of main
DataloaderState(load_dataloader_state, metadata_consumed_samples) ==
    IF ~load_dataloader_state THEN 0 ELSE metadata_consumed_samples

InitMain ==
    /\ TrainingWrapper
    /\ op = "main"
    /\ \E n \in 0..MaxSteps, li \in 1..MaxInterval, si \in 1..MaxInterval,
          named \in BOOLEAN, shape \in BatchShapes, ev \in Evaluations :
          \E launch \in Launches(shape) :
             args = TrainingArgs(n, li, ev.eval_interval, si,
                                 ev.eval_during_training, named, shape, launch,
                                 ev.setup)
    /\ result = NoCall
    /\ pc = "main"
    /\ starting_iteration = 0
    /\ consumed_samples = 0
    /\ global_step = 0
    /\ steps_since_start_time = 0
    /\ start_time = 0
    /\ metrics_tracker = EmptyTracker
    /\ model_training = FALSE
    /\ events = <<>>
    /\ NoRanks

\* main up to its call of train
Main ==
    /\ op = "main"
    /\ pc = "main"
    /\ LET loaded == load_checkpoint_for_training(args.checkpoint)
           samples == IF args.has_load_args
                      THEN DataloaderState(args.load_dataloader_state,
                                           loaded.consumed_samples)
                      ELSE 0
       IN  /\ starting_iteration' = IF args.has_load_args
                                    THEN loaded.starting_iteration ELSE 0
           /\ consumed_samples' = samples
           /\ events' = events
                 \o (IF args.has_load_args
                     THEN <<Event("load_checkpoint_for_training")>> ELSE <<>>)
                 \o <<[Event("get_megatron_gpt_dataloaders") EXCEPT
                          !.samples = samples]>>
    /\ pc' = "train"
    /\ UNCHANGED <<wrapper_vars, rank_vars, op, args, result, global_step,
                   steps_since_start_time, start_time, metrics_tracker,
                   model_training>>

\* the group names train hands to evaluate; subscripting the keys of a mapping
\* raises TypeError
GroupNames(a) ==
    IF a.has_val_weighted_split_paths
    THEN [status |-> "TypeError", names |-> <<>>]
    ELSE [status |-> "ok", names |-> <<NoGroupName>>]

\* a call of evaluate by train: the call is recorded before what it does
CallEvaluate(which, dataloaders, training, step, a) ==
    LET returned == evaluate(dataloaders, training, step, a.eval_steps,
                             GroupNames(a).names, a.dist)
    IN  [status |-> returned.status,
         events |-> <<[Event("evaluate") EXCEPT !.on = which, !.step = step]>>
                      \o returned.events,
         training |-> returned.training]

\* train from its first statement to the loop
TrainStart ==
    /\ op = "main"
    /\ pc = "train"
    /\ IF GroupNames(args).status # "ok"
       THEN /\ result' = [status |-> GroupNames(args).status]
            /\ pc' = "raised"
            /\ UNCHANGED <<global_step, steps_since_start_time, start_time,
                           metrics_tracker, model_training, events>>
       ELSE LET training == ModelTrain(model_training)
                first == IF args.eval_during_training
                         THEN CallEvaluate("val", args.val_dataloaders, training,
                                           starting_iteration, args)
                         ELSE [status |-> "ok", events |-> <<>>,
                               training |-> training]
                log == events \o <<Event("model.train")>> \o first.events
            IN  /\ events' = log
                /\ model_training' = first.training
                /\ IF first.status # "ok"
                   THEN /\ result' = [status |-> first.status]
                        /\ pc' = "raised"
                        /\ UNCHANGED <<global_step, steps_since_start_time,
                                       start_time, metrics_tracker>>
                   ELSE /\ start_time' = Clock(log)
                        /\ steps_since_start_time' = 0
                        /\ metrics_tracker' = EmptyTracker
                        /\ global_step' = starting_iteration
                        /\ pc' = "loop"
                        /\ UNCHANGED result
    /\ UNCHANGED <<wrapper_vars, rank_vars, op, args, starting_iteration, consumed_samples>>

\* mutant of LoopCondition: the loop runs one step further
LoopCondition_Inclusive(g, num_training_steps) == g <= num_training_steps

\* while global_step < num_training_steps
LoopCondition(g, num_training_steps) == g < num_training_steps

\* one iteration, up to the accumulation of the step's metrics
TrainStep ==
    /\ op = "main"
    /\ pc = "loop"
    /\ LoopCondition(global_step, args.num_training_steps)
    /\ global_step' = global_step + 1
    /\ steps_since_start_time' = steps_since_start_time + 1
    /\ events' = Append(events, [Event("train_step") EXCEPT
                                    !.step = global_step + 1,
                                    !.training = model_training,
                                    !.noised = NeftForward(neft, model_training)])
    /\ metrics_tracker' = Accumulate(metrics_tracker, global_step + 1)
    /\ pc' = "log"
    /\ UNCHANGED <<wrapper_vars, rank_vars, op, args, result, starting_iteration,
                   consumed_samples, start_time, model_training>>

\* mutant of IsLogStep: the first step of every interval
IsLogStep_First(g, log_interval) == g % log_interval = 1 % log_interval

\* if global_step % log_interval == 0
IsLogStep(g, log_interval) == g % log_interval = 0

Log ==
    /\ op = "main"
    /\ pc = "log"
    /\ IF IsLogStep(global_step, args.log_interval)
       THEN LET log == Append(events, [Event("track_metrics") EXCEPT
                                          !.step = global_step,
                                          !.context = "train",
                                          !.summed = metrics_tracker,
                                          !.divisor = args.log_interval])
            IN  /\ events' = log
                /\ start_time' = Clock(log)
                /\ steps_since_start_time' = 0
                /\ metrics_tracker' = EmptyTracker
       ELSE UNCHANGED <<events, start_time, steps_since_start_time, metrics_tracker>>
    /\ pc' = "eval"
    /\ UNCHANGED <<wrapper_vars, rank_vars, op, args, result, starting_iteration,
                   consumed_samples, global_step, model_training>>

\* mutant of IsEvalStep: the final step is not evaluated
IsEvalStep_IntervalOnly(g, eval_interval, num_training_steps) ==
    g % eval_interval = 0

\* global_step % eval_interval == 0 or global_step == num_training_steps
IsEvalStep(g, eval_interval, num_training_steps) ==
    g % eval_interval = 0 \/ g = num_training_steps

Eval ==
    /\ op = "main"
    /\ pc = "eval"
    /\ IF /\ args.eval_during_training
          /\ IsEvalStep(global_step, args.eval_interval, args.num_training_steps)
       THEN LET called == CallEvaluate("val", args.val_dataloaders, model_training,
                                       global_step, args)
            IN  /\ events' = events \o called.events
                /\ model_training' = called.training
                /\ IF called.status # "ok"
                   THEN result' = [status |-> called.status] /\ pc' = "raised"
                   ELSE UNCHANGED result /\ pc' = "save"
       ELSE /\ pc' = "save"
            /\ UNCHANGED <<events, model_training, result>>
    /\ UNCHANGED <<wrapper_vars, rank_vars, op, args, starting_iteration, consumed_samples,
                   global_step, steps_since_start_time, start_time, metrics_tracker>>

\* mutant of IsSaveStep: the final step is not saved
IsSaveStep_IntervalOnly(g, save_interval, num_training_steps) ==
    g % save_interval = 0

\* global_step % save_interval == 0 or global_step == num_training_steps
IsSaveStep(g, save_interval, num_training_steps) ==
    g % save_interval = 0 \/ g = num_training_steps

\* mutant of CounterAfterSave: the save leaves the counter alone
CounterAfterSave_Kept(counter) == counter

\* steps_since_start_time = 0, after save_checkpoint
CounterAfterSave(counter) == 0

Save ==
    /\ op = "main"
    /\ pc = "save"
    /\ IF IsSaveStep(global_step, args.save_interval, args.num_training_steps)
       THEN LET log == Append(events, [Event("save_checkpoint") EXCEPT
                                          !.step = global_step,
                                          !.samples = global_step * SamplesPerStep(args)])
            IN  /\ events' = log
                /\ start_time' = Clock(log)
                /\ steps_since_start_time' = CounterAfterSave(steps_since_start_time)
       ELSE UNCHANGED <<events, start_time, steps_since_start_time>>
    /\ pc' = "loop"
    /\ UNCHANGED <<wrapper_vars, rank_vars, op, args, result, starting_iteration,
                   consumed_samples, global_step, metrics_tracker, model_training>>

\* mutant of FinalEvaluation: the test sets are evaluated in every configuration
FinalEvaluation_Always(eval_during_training) == TRUE

\* if eval_during_training, after the loop
FinalEvaluation(eval_during_training) == eval_during_training

\* the statements after the loop, and the return to main
Finish ==
    /\ op = "main"
    /\ pc = "loop"
    /\ ~LoopCondition(global_step, args.num_training_steps)
    /\ IF FinalEvaluation(args.eval_during_training)
       THEN LET called == CallEvaluate("test", args.test_dataloaders, model_training,
                                       global_step, args)
            IN  /\ events' = events \o called.events
                /\ model_training' = called.training
                /\ result' = [status |-> called.status]
       ELSE /\ result' = [status |-> "ok"]
            /\ UNCHANGED <<events, model_training>>
    /\ pc' = "done"
    /\ UNCHANGED <<wrapper_vars, rank_vars, op, args, starting_iteration, consumed_samples,
                   global_step, steps_since_start_time, start_time, metrics_tracker>>

NextTrain == Main \/ TrainStart \/ TrainStep \/ Log \/ Eval \/ Save \/ Finish

SpecTrain == InitMain /\ [][NextTrain]_vars

\* every statement is reached in turn
FairSpecTrain == SpecTrain /\ WF_vars(NextTrain)

----------------------------------------------------------------------------
(* main from its call of get_model, which constructs the wrapper from the  *)
(* configuration of the run.                                               *)

\* the part of the configuration ModelWrapper.__init__ reads, for the
\* decoder-only model of TrainingWrapper
ModelArgs(neft_alpha, has_get_input_embeddings) ==
    [mode |-> "training",
     use_padding_free_transformer |-> FALSE,
     supported |-> TRUE,
     attention_implementation |-> "sdpa",
     is_encoder_decoder |-> FALSE,
     has_tokenizer_name |-> TRUE,
     padding_side |-> "left",
     eos_token_id |-> 0,
     loss_mask |-> "no_mask",
     neft_alpha |-> neft_alpha,
     has_get_input_embeddings |-> has_get_input_embeddings]

\* one configuration holding the fields of both
Merge(a, b) ==
    [f \in (DOMAIN a) \cup (DOMAIN b) |-> IF f \in DOMAIN a THEN a[f] ELSE b[f]]

\* a fresh run that evaluates during training, about to call get_model
InitGetModel ==
    /\ mode = "none"
    /\ padding_side = "none"
    /\ is_encoder_decoder = FALSE
    /\ loss_mask = "None"
    /\ use_padding_free_transformer = FALSE
    /\ eos_token_id = 0
    /\ neft = FALSE
    /\ op = "main"
    /\ \E n \in 0..MaxSteps, li \in 1..MaxInterval, ei \in 1..MaxInterval,
          setup \in TrainSetups, neft_alpha \in NeftAlphas,
          has_get_input_embeddings \in BOOLEAN :
          \E launch \in {l \in Launches(<<1, 1, 1>>) : ~l.has_load_args} :
             args = Merge(TrainingArgs(n, li, ei, 1, TRUE, FALSE, <<1, 1, 1>>,
                                       launch, setup),
                          ModelArgs(neft_alpha, has_get_input_embeddings))
    /\ result = NoCall
    /\ pc = "get_model"
    /\ starting_iteration = 0
    /\ consumed_samples = 0
    /\ global_step = 0
    /\ steps_since_start_time = 0
    /\ start_time = 0
    /\ metrics_tracker = EmptyTracker
    /\ model_training = FALSE
    /\ events = <<>>
    /\ NoRanks

\* model = get_model(args, mode)
GetModel ==
    /\ op = "main"
    /\ pc = "get_model"
    /\ LET built == __init__(args)
       IN  IF built.status = "ok"
           THEN /\ mode' = args.mode
                /\ padding_side' = args.padding_side
                /\ is_encoder_decoder' = args.is_encoder_decoder
                /\ loss_mask' = LossMaskAfterInit(args.mode, args.loss_mask)
                /\ use_padding_free_transformer' = args.use_padding_free_transformer
                /\ eos_token_id' = args.eos_token_id
                /\ neft' = built.neft
                /\ pc' = "main"
                /\ UNCHANGED result
           ELSE /\ result' = [status |-> built.status]
                /\ pc' = "raised"
                /\ UNCHANGED wrapper_vars
    /\ UNCHANGED <<rank_vars, op, args, starting_iteration, consumed_samples,
                   global_step, steps_since_start_time, start_time,
                   metrics_tracker, model_training, events>>

\* a construction on its own, or main from get_model on
InitNeft == InitConstruct \/ InitGetModel

NextNeft == NextConstruct \/ GetModel \/ NextTrain

SpecNeft == InitNeft /\ [][NextNeft]_vars

\* evaluate called on its own, or the whole program run
InitPretrain == InitEval \/ InitMain

NextPretrain == NextEval \/ NextTrain

SpecPretrain == InitPretrain /\ [][NextPretrain]_vars

----------------------------------------------------------------------------
(* Properties of _pad, checked under SpecPad. *)

\* _pad has been called and has returned or raised
PadDone == op = "_pad" /\ result # NoCall

\* the call is decoder-only, padded, right padding, output_only, with outputs
RightOutputOnlyCall ==
    /\ PadDone
    /\ ~args.is_encoder_decoder
    /\ ~args.use_padding_free_transformer
    /\ args.padding_side = "right"
    /\ args.loss_mask = "output_only"
    /\ args.has_outputs

\* row i of the labels is laid out as the right-padding contract says:
\* width max_length, sentinel on [0, n-m) and [n, max_length), output_i between
RightLabelsRow(i) ==
    LET n == Len(args.inputs[i])
        m == Len(args.outputs[i])
        max_length == MaxLength(args.inputs)
        row == result.labels[i]
    IN  /\ Len(row) = max_length
        /\ \A p \in 1..max_length :
              IF p <= n - m \/ p > n
              THEN row[p] = labels_mask_value
              ELSE row[p] = args.outputs[i][p - (n - m)]

RightLabelsContract ==
    /\ result.status = "ok"
    /\ result.has_labels
    /\ Len(result.labels) = Len(args.inputs)
    /\ \A i \in 1..Len(args.inputs) : RightLabelsRow(i)

\* every output row is at most as long as its input row
OutputsFitInputs ==
    \A i \in 1..Len(args.inputs) : Len(args.outputs[i]) <= Len(args.inputs[i])

\* C1 as stated: for every decoder-only, non-packed, right-padding, output_only
\* batch with outputs, every labels row has width max_length, holds the sentinel
\* on [0, len(input_i)-len(output_i)) and [len(input_i), max_length), and holds
\* output_i on [len(input_i)-len(output_i), len(input_i)).
C1_AsStated == RightOutputOnlyCall => RightLabelsContract

\* C1 amended: the same layout, for the batches in which no output row is longer
\* than its input row.
C1_RightLabels == (RightOutputOnlyCall /\ OutputsFitInputs) => RightLabelsContract

\* a two-row batch whose first row is shorter than the second and whose outputs
\* are shorter than their inputs: row 1 carries a sentinel prefix, its output and
\* a sentinel suffix
C1_Witness ==
    /\ RightOutputOnlyCall
    /\ OutputsFitInputs
    /\ Len(args.inputs) = 2
    /\ Len(args.inputs[1]) = 2
    /\ Len(args.outputs[1]) = 1
    /\ Len(args.inputs[2]) = 3
    /\ result.status = "ok"
    /\ result.labels[1] = <<labels_mask_value, 12, labels_mask_value>>

\* the call is decoder-only and padding-free
PackedCall ==
    /\ PadDone
    /\ ~args.is_encoder_decoder
    /\ args.use_padding_free_transformer

\* row i of the padding-free labels: len(input_i)-len(output_i) sentinels (none
\* when the difference is not positive), then output_i
PackedLabelsRow(i) ==
    LET n == Len(args.inputs[i])
        m == Len(args.outputs[i])
        k == Max2(n - m, 0)
        row == result.labels[i]
    IN  /\ Len(row) = k + m
        /\ \A p \in 1..(k + m) :
              IF p <= k THEN row[p] = labels_mask_value
                        ELSE row[p] = args.outputs[i][p - k]

EncDecReturned ==
    /\ PadDone
    /\ args.is_encoder_decoder
    /\ result.status = "ok"

\* the first padded position of row i, counted from 0: the pad width under left
\* padding, 0 under right padding
PadOffset(i) ==
    IF args.padding_side = "left"
    THEN MaxLength(args.inputs) - Len(args.inputs[i])
    ELSE 0

\* C3: on the encoder-decoder path, for both padding sides, each attention_mask
\* row sums to the unpadded input length, its ones sit exactly on the positions
\* of the original tokens, input_ids holds the original tokens there in order and
\* pad_token_id everywhere else.
C3_EncDecMask ==
    EncDecReturned =>
        /\ Len(result.input_ids) = Len(args.inputs)
        /\ Len(result.attention_mask) = Len(args.inputs)
        /\ \A i \in 1..Len(args.inputs) :
              LET n == Len(args.inputs[i])
                  w == MaxLength(args.inputs)
                  off == PadOffset(i)
              IN  /\ Len(result.input_ids[i]) = w
                  /\ Len(result.attention_mask[i]) = w
                  /\ SumSeq(result.attention_mask[i]) = n
                  /\ \A p \in 1..w :
                        IF off < p /\ p <= off + n
                        THEN /\ result.attention_mask[i][p] = 1
                             /\ result.input_ids[i][p] = args.inputs[i][p - off]
                        ELSE /\ result.attention_mask[i][p] = 0
                             /\ result.input_ids[i][p] = args.pad_token_id

\* a left-padded encoder-decoder batch whose first row is padded by two
C3_Witness ==
    /\ EncDecReturned
    /\ args.padding_side = "left"
    /\ args.pad_token_id = 0
    /\ args.inputs = << <<11>>, <<21, 22, 23>> >>
    /\ result.input_ids[1] = <<0, 0, 11>>
    /\ result.attention_mask[1] = <<0, 0, 1>>

\* the same call with the other padding side
OtherSide(side) == IF side = "left" THEN "right" ELSE "left"

\* C4: on the encoder-decoder path with outputs, row i of labels is output_i
\* followed by sentinels up to the longest output, under left and under right
\* padding alike: the labels of the call equal those of the same call made with
\* the other padding side.
C4_EncDecLabels ==
    (EncDecReturned /\ args.has_outputs) =>
        /\ result.has_labels
        /\ Len(result.labels) = Len(args.outputs)
        /\ \A i \in 1..Len(args.outputs) :
              LET m == Len(args.outputs[i])
                  w == MaxLength(args.outputs)
              IN  /\ Len(result.labels[i]) = w
                  /\ \A p \in 1..w :
                        IF p <= m THEN result.labels[i][p] = args.outputs[i][p]
                                  ELSE result.labels[i][p] = labels_mask_value
        /\ result.labels =
              _pad(args.inputs, args.has_outputs, args.outputs, args.pad_token_id,
                   OtherSide(args.padding_side), args.is_encoder_decoder,
                   args.loss_mask, args.use_padding_free_transformer).labels

\* a left-padded encoder-decoder batch whose first output is shorter: its labels
\* row is padded on the right
C4_Witness ==
    /\ EncDecReturned
    /\ args.has_outputs
    /\ args.padding_side = "left"
    /\ args.inputs = << <<11, 12>>, <<21, 22, 23>> >>
    /\ args.outputs = << <<12>>, <<21, 22, 23>> >>
    /\ result.labels[1] = <<12, labels_mask_value, labels_mask_value>>

\* the call is one of the padded (non-packed) calls C5 speaks of: either padding
\* side, one of the two loss masks
PaddedCall ==
    /\ PadDone
    /\ ~args.use_padding_free_transformer
    /\ args.loss_mask \in {"output_only", "no_mask"}

\* the nested lists the call has built before its final torch.tensor step
BuiltLists ==
    PadLists(args.inputs, args.has_outputs, args.outputs, args.pad_token_id,
             args.padding_side, args.is_encoder_decoder, args.loss_mask,
             args.use_padding_free_transformer)

\* C5 as stated, on the batches whose output rows are no longer than their input
\* rows: in every non-packed call (any padding side, either loss mask,
\* encoder-decoder or decoder-only) the rows of input_ids share one length, the
\* rows of attention_mask share that length, and the rows of labels, when
\* present, share one length, so the three become rectangular tensors.
C5_AsStated ==
    (PaddedCall /\ BuiltLists.status = "ok"
                /\ (args.has_outputs => OutputsFitInputs)) =>
        /\ IsRectangular(BuiltLists.input_ids)
        /\ IsRectangular(BuiltLists.attention_mask)
        /\ \A i \in 1..Len(args.inputs) :
              Len(BuiltLists.attention_mask[i]) = Len(BuiltLists.input_ids[i])
        /\ BuiltLists.has_labels => IsRectangular(BuiltLists.labels)
        /\ result.status = "ok"
        /\ result.tensorized

\* every input row has the same length
UniformInputs == IsRectangular(args.inputs)

AllOnes(row) == \A p \in 1..Len(row) : row[p] = 1

\* C6: when all input rows already have the same length, a padded (non-packed)
\* call, on either padding side, encoder-decoder or decoder-only, returns
\* input_ids equal to the inputs element for element and an attention_mask of
\* all ones.
C6_UniformNoOp ==
    (PadDone /\ ~args.use_padding_free_transformer /\ UniformInputs
             /\ result.status = "ok") =>
        /\ result.input_ids = args.inputs
        /\ Len(result.attention_mask) = Len(args.inputs)
        /\ \A i \in 1..Len(args.inputs) :
              /\ Len(result.attention_mask[i]) = Len(args.inputs[i])
              /\ AllOnes(result.attention_mask[i])

\* a left-padded decoder-only batch of two rows of three tokens
C6_Witness ==
    /\ PadDone
    /\ ~args.use_padding_free_transformer
    /\ ~args.is_encoder_decoder
    /\ args.padding_side = "left"
    /\ args.inputs = << <<11, 12, 13>>, <<21, 22, 23>> >>
    /\ result.status = "ok"
    /\ result.input_ids = args.inputs
    /\ result.attention_mask = << <<1, 1, 1>>, <<1, 1, 1>> >>

\* the call is on the encoder-decoder path with a loss mask other than output_only
EncDecOtherMask ==
    /\ PadDone
    /\ args.is_encoder_decoder
    /\ args.loss_mask # "output_only"

\* C7 as stated: on the encoder-decoder path every call whose loss_mask is not
\* output_only fails with a configuration error and returns nothing.
C7_AsStated == EncDecOtherMask => result.status = "AssertionError"

\* C7 amended: on the encoder-decoder path a call whose loss_mask is not
\* output_only fails with the assertion error, returning nothing, exactly when
\* outputs are given; with outputs None it returns input_ids and attention_mask
\* and no labels.
C7_EncDecLossMask ==
    EncDecOtherMask =>
        IF args.has_outputs
        THEN /\ result.status = "AssertionError"
             /\ result.input_ids = <<>>
             /\ ~result.has_attention_mask
             /\ ~result.has_labels
        ELSE /\ result.status = "ok"
             /\ result.has_attention_mask
             /\ ~result.has_labels

\* an encoder-decoder call with outputs under no_mask has raised
C7_Witness ==
    /\ EncDecOtherMask
    /\ args.loss_mask = "no_mask"
    /\ args.has_outputs
    /\ result.status = "AssertionError"

----------------------------------------------------------------------------
(* Properties of prepare_batch, checked under Spec. *)

PrepareBatchDone == op = "prepare_batch" /\ result # NoCall

\* C8 as stated, on the batches whose output rows are no longer than their input
\* rows: in every non-training mode prepare_batch succeeds and returns input_ids
\* and attention_mask and no labels, for every wrapper configuration; in
\* training mode it fails with the assertion error when outputs is None and
\* otherwise returns input_ids, attention_mask and labels.
C8_AsStated ==
    (PrepareBatchDone /\ (args.has_outputs => OutputsFitInputs)) =>
        IF mode # "training"
        THEN /\ result.status = "ok"
             /\ result.keys = {"input_ids", "attention_mask"}
        ELSE IF ~args.has_outputs
             THEN result.status = "AssertionError"
             ELSE /\ result.status = "ok"
                  /\ result.keys = {"input_ids", "attention_mask", "labels"}

----------------------------------------------------------------------------
(* Properties of generate, checked under SpecGen. *)

GenerateDone == op = "generate" /\ result # NoCall

\* the number of tokens of row that are not the end-of-sequence id
NonEos(row) == SumSeq([p \in 1..Len(row) |-> IF row[p] = eos_token_id THEN 0 ELSE 1])

\* C9: for every example generate returns, the token count is 1 plus the number
\* of non-end-of-sequence tokens among the tokens the model added for that
\* example (for a decoder-only model the echoed input_ids prefix is trimmed
\* first, so no prompt or padding token is counted); in padding-free mode
\* generate raises NotImplementedError before it prepares the batch.
C9_TokenCount ==
    GenerateDone =>
        IF use_padding_free_transformer
        THEN /\ result.status = "NotImplementedError"
             /\ result.calls = <<>>
        ELSE /\ result.status = "ok"
             /\ Len(result.num_generated_tokens) = Len(args.inputs)
             /\ \A i \in 1..Len(args.inputs) :
                   /\ result.generated[i] = args.new_tokens[i]
                   /\ result.num_generated_tokens[i] = 1 + NonEos(args.new_tokens[i])

\* the specification's example on a decoder-only model: after a prompt of three
\* tokens, none of them the end-of-sequence id, the model adds [5, 7, eos, eos],
\* counted 3
C9_Witness ==
    /\ GenerateDone
    /\ ~is_encoder_decoder
    /\ ~use_padding_free_transformer
    /\ eos_token_id = 0
    /\ args.inputs = << <<11, 12, 13>> >>
    /\ args.new_tokens = << <<5, 7, 0, 0>> >>
    /\ result.generated = << <<5, 7, 0, 0>> >>
    /\ result.num_generated_tokens = <<3>>

----------------------------------------------------------------------------
(* Properties of get_model_tflops, checked under SpecFlops. *)

TflopsDone == op = "get_model_tflops" /\ result # NoCall

\* b * s * h * f of the call
Bshf == args.batch_size * args.sequence_length * args.n_embd * args.n_inner

\* the MLP term of the same call with a non-gated activation
NonGluTerm ==
    mlp_flops(args.batch_size, args.sequence_length, args.n_embd, args.n_inner,
              FALSE)

\* C10 as stated: the MLP term is 6*b*s*h*f under a GLU activation and 4*b*s*h*f
\* otherwise, and so the GLU term is the non-GLU term with its multiplier doubled.
C10_AsStated ==
    TflopsDone =>
        /\ result.mlp_flops = (IF args.is_glu THEN 6 ELSE 4) * Bshf
        /\ args.is_glu => result.mlp_flops = 2 * NonGluTerm

\* C10 amended: the MLP term is 6*b*s*h*f under a GLU activation and 4*b*s*h*f
\* otherwise; the GLU term is one and a half times the non-GLU term (the
\* multiplier goes from 4 to 6, it is not doubled).
C10_MlpTerm ==
    TflopsDone =>
        /\ result.mlp_flops = (IF args.is_glu THEN 6 ELSE 4) * Bshf
        /\ args.is_glu => 2 * result.mlp_flops = 3 * NonGluTerm
        /\ ~args.is_glu => result.mlp_flops = NonGluTerm

\* a GLU call with b = 2, s = 3, h = 3, f = 2: the MLP term is 6 * 36 = 216
C10_Witness ==
    /\ TflopsDone
    /\ args.is_glu
    /\ args.batch_size = 2
    /\ args.sequence_length = 3
    /\ args.n_embd = 3
    /\ args.n_inner = 2
    /\ result.mlp_flops = 216

----------------------------------------------------------------------------
(* Properties of ModelWrapper.__init__, checked under SpecConstruct. *)

\* __init__ has been called and has returned or raised
ConstructDone == op = "__init__" /\ result # NoCall

\* a wrapper exists
WrapperExists == mode # "none"

\* the two conditions of padding-free mode
PaddingFreeConditions ==
    args.supported /\ args.attention_implementation = "flash_attention_2"

\* C11: a construction that asks for padding-free mode succeeds only if the
\* architecture supports it and the attention implementation is
\* flash_attention_2; otherwise it raises an assertion error before the
\* tokenizer is loaded and before the model is instantiated, and no wrapper
\* exists with use_padding_free_transformer set and either condition false.
C11_PaddingFreeGate ==
    (ConstructDone /\ args.use_padding_free_transformer) =>
        /\ result.status = "ok" => PaddingFreeConditions
        /\ ~PaddingFreeConditions =>
              /\ result.status = "AssertionError"
              /\ \A k \in 1..Len(result.calls) :
                    result.calls[k] \notin {"AutoTokenizer.from_pretrained",
                                            "_setup_model"}
              /\ ~WrapperExists
        /\ (WrapperExists /\ use_padding_free_transformer) => PaddingFreeConditions

\* padding-free mode asked for with a supported architecture and an attention
\* implementation other than flash_attention_2: the construction has raised
C11_Witness ==
    /\ ConstructDone
    /\ args.use_padding_free_transformer
    /\ args.supported
    /\ args.attention_implementation = "sdpa"
    /\ result.status = "AssertionError"

----------------------------------------------------------------------------
(* Properties of main and train, checked under SpecTrain and FairSpecTrain. *)

\* the calls of one kind, in order
Calls(k) == SelectSeq(events, LAMBDA e : e.kind = k)

\* the step numbers of a sequence of calls
StepsOf(calls) == [i \in 1..Len(calls) |-> calls[i].step]

\* control is inside the loop of train, or the loop has been left
InLoop == pc \in {"loop", "log", "eval", "save", "done"}

\* starting_iteration + 1, ..., num_training_steps
StepNumbers(first, last) == [i \in 1..Max2(0, last - first) |-> first + i]

\* C12 as stated, its bound on global_step: global_step never exceeds
\* num_training_steps.
C12_AsStated == InLoop => global_step <= args.num_training_steps

\* C12: the training loop terminates; global_step starts at starting_iteration,
\* increases by exactly 1 per iteration and never exceeds the larger of
\* starting_iteration and num_training_steps; when the loop is left, exactly
\* max(0, num_training_steps - starting_iteration) training steps have been
\* executed, numbered starting_iteration + 1 through num_training_steps, each
\* once and in increasing order.
C12_LoopCounter ==
    /\ [](InLoop =>
            /\ starting_iteration <= global_step
            /\ global_step <= Max2(starting_iteration, args.num_training_steps)
            /\ StepsOf(Calls("train_step"))
                 = StepNumbers(starting_iteration, global_step))
    /\ [][global_step' # global_step =>
            \/ pc = "train" /\ pc' = "loop" /\ global_step' = starting_iteration
            \/ pc = "loop" /\ pc' = "log" /\ global_step' = global_step + 1]_vars
    /\ [](pc = "done" =>
            StepsOf(Calls("train_step"))
              = StepNumbers(starting_iteration, args.num_training_steps))
    /\ <>(pc \in {"done", "raised"})

\* a resumed run that has executed two steps or more and left the loop
C12_Witness ==
    /\ pc = "done"
    /\ starting_iteration >= 1
    /\ args.num_training_steps - starting_iteration >= 2
    /\ Len(Calls("train_step")) = args.num_training_steps - starting_iteration

\* the positions in events of the calls of kind k made for step g
At(k, g) == {i \in 1..Len(events) : events[i].kind = k /\ events[i].step = g}

\* the steps whose iteration is complete
CompleteSteps ==
    IF ~InLoop THEN {}
    ELSE IF pc \in {"loop", "done"} THEN (starting_iteration + 1)..global_step
    ELSE (starting_iteration + 1)..(global_step - 1)

\* a checkpoint is due after step g
SaveDue(g) == g % args.save_interval = 0 \/ g = args.num_training_steps

\* C13: a checkpoint is saved after training step g if and only if
\* g % save_interval = 0 or g = num_training_steps; it carries step g and
\* consumed_samples = g * micro_batch_size * gradient_accumulation_steps *
\* data parallel world size; it is written after train step g and after the
\* logging and the evaluation of step g, and before train step g + 1; a run
\* that executes at least one step ends with a checkpoint at num_training_steps.
C13_Checkpoints ==
    /\ \A i \in 1..Len(events) :
          events[i].kind = "save_checkpoint" =>
             LET g == events[i].step
             IN  /\ SaveDue(g)
                 /\ At("save_checkpoint", g) = {i}
                 /\ events[i].samples
                      = g * args.micro_batch_size * args.gradient_accumulation_steps
                          * args.dp_world_size
                 /\ At("train_step", g) # {}
                 /\ \A j \in At("train_step", g) \cup At("track_metrics", g) :
                       j < i
                 /\ \A j \in At("evaluate", g) : events[j].on = "val" => j < i
                 /\ \A j \in 1..Len(events) :
                       (events[j].kind = "train_step" /\ events[j].step > g) => j > i
    /\ \A g \in CompleteSteps : SaveDue(g) => At("save_checkpoint", g) # {}
    /\ (pc = "done" /\ Calls("train_step") # <<>>) =>
          /\ Calls("save_checkpoint") # <<>>
          /\ Calls("save_checkpoint")[Len(Calls("save_checkpoint"))].step
               = args.num_training_steps
          /\ \A i \in At("save_checkpoint", args.num_training_steps) :
                \A j \in 1..Len(events) : events[j].kind = "train_step" => j < i

\* a finished run with a checkpoint at a multiple of save_interval, none at a
\* step in between, and one at the final step, which is no multiple
C13_Witness ==
    /\ pc = "done"
    /\ args.num_training_steps % args.save_interval # 0
    /\ args.eval_during_training
    /\ Len(Calls("save_checkpoint")) >= 2
    /\ Len(Calls("save_checkpoint")) < Len(Calls("train_step"))
    /\ At("save_checkpoint", args.num_training_steps) # {}
    /\ \E i \in 1..Len(events) :
          /\ events[i].kind = "save_checkpoint"
          /\ events[i].samples > events[i].step

\* the steps whose logging is decided
LoggedSteps ==
    IF ~InLoop THEN {}
    ELSE IF pc = "log" THEN (starting_iteration + 1)..(global_step - 1)
    ELSE (starting_iteration + 1)..global_step

\* the position of the last emission of training metrics, 0 if there is none
LastEmission ==
    LET at == {i \in 1..Len(events) : events[i].kind = "track_metrics"}
    IN  IF at = {} THEN 0 ELSE CHOOSE i \in at : \A j \in at : j <= i

\* the steps executed after position i of events
StepsAfter(i) ==
    StepsOf(SelectSeq(SubSeq(events, i + 1, Len(events)),
                      LAMBDA e : e.kind = "train_step"))

\* events has grown by an emission of training metrics
Emits == Len(Calls("track_metrics"))' = Len(Calls("track_metrics")) + 1

\* C14: at every step g with g % log_interval = 0, and at no other step, the
\* metrics tracker is divided by log_interval and emitted once, with context
\* train and step g, and then reset to empty together with the throughput timer
\* and the counter of steps since the timer was read; between two emissions the
\* tracker only accumulates the metrics of each step by addition.
C14_Logging ==
    /\ [](/\ \A i \in 1..Len(events) :
               events[i].kind = "track_metrics" =>
                  LET g == events[i].step
                  IN  /\ g % args.log_interval = 0
                      /\ At("track_metrics", g) = {i}
                      /\ events[i].context = "train"
                      /\ events[i].divisor = args.log_interval
                      /\ \E j \in At("train_step", g) :
                            /\ j < i
                            /\ events[i].summed
                                 = SelectSeq(StepsOf(Calls("train_step")),
                                             LAMBDA k : /\ k <= g
                                                        /\ k > g - Len(events[i].summed))
                      /\ \A j \in 1..Len(events) :
                            (events[j].kind = "train_step" /\ events[j].step > g)
                               => j > i
          /\ \A g \in LoggedSteps :
                g % args.log_interval = 0 => At("track_metrics", g) # {}
          /\ InLoop => metrics_tracker = StepsAfter(LastEmission))
    /\ [][Emits =>
             /\ metrics_tracker' = <<>>
             /\ steps_since_start_time' = 0
             /\ start_time' = Len(events')]_vars
    /\ [][(~Emits /\ metrics_tracker' # metrics_tracker) =>
             /\ global_step' = global_step + 1
             /\ metrics_tracker' = metrics_tracker \o <<global_step'>>]_vars

\* the metrics of two steps have been emitted, and a later step has been added
\* to the tracker, which was reset
C14_Witness ==
    /\ pc = "log"
    /\ metrics_tracker = <<global_step>>
    /\ steps_since_start_time = 1
    /\ \E i \in 1..Len(events) :
          /\ events[i].kind = "track_metrics"
          /\ events[i].step = global_step - 1
          /\ Len(events[i].summed) = 2
          /\ events[i].divisor = 2

\* the steps whose evaluation is decided
EvaluatedSteps ==
    IF ~InLoop THEN {}
    ELSE IF pc \in {"log", "eval"} THEN (starting_iteration + 1)..(global_step - 1)
    ELSE (starting_iteration + 1)..global_step

\* the positions of the calls of evaluate made inside the loop for step g: on the
\* validation dataloaders, for a step the run has executed
EvaluatedAt(g) ==
    {i \in At("evaluate", g) : events[i].on = "val" /\ g > starting_iteration}

\* an evaluation is due after step g
EvalDue(g) == g % args.eval_interval = 0 \/ g = args.num_training_steps

\* C15: with evaluation during training enabled, evaluate is called inside the
\* loop on the validation dataloaders after training step g if and only if
\* g % eval_interval = 0 or g = num_training_steps, with step argument g, at
\* most once per step, after train step g and before any checkpoint of step g.
C15_EvalInLoop ==
    args.eval_during_training =>
       /\ \A g \in (starting_iteration + 1)..global_step : \A i \in EvaluatedAt(g) :
             /\ EvalDue(g)
             /\ EvaluatedAt(g) = {i}
             /\ \E j \in At("train_step", g) : j < i
             /\ \A j \in At("save_checkpoint", g) : i < j
             /\ \A j \in 1..Len(events) :
                   (events[j].kind = "train_step" /\ events[j].step > g) => j > i
       /\ \A g \in EvaluatedSteps : EvalDue(g) => EvaluatedAt(g) # {}

\* the final step, no multiple of eval_interval, has been evaluated and then
\* saved, and an earlier step has not been evaluated
C15_Witness ==
    /\ pc = "done"
    /\ args.eval_during_training
    /\ args.num_training_steps % args.eval_interval # 0
    /\ \E i \in EvaluatedAt(args.num_training_steps) :
          \E j \in At("save_checkpoint", args.num_training_steps) : i < j
    /\ \E g \in EvaluatedSteps : EvaluatedAt(g) = {}

\* the positions of the calls of evaluate on the test dataloaders
TestEvaluations ==
    {i \in 1..Len(events) : events[i].kind = "evaluate" /\ events[i].on = "test"}

\* C16 as stated: in every configuration, a run that has left the loop has made
\* exactly one call of evaluate on the test dataloaders.
C16_AsStated == pc = "done" => Cardinality(TestEvaluations) = 1

\* C16: with evaluation during training enabled, train calls evaluate on the
\* test dataloaders exactly once, after the loop, with the final global_step and
\* after the last checkpoint; with it disabled train never calls evaluate.
C16_FinalEval ==
    /\ pc # "done" => TestEvaluations = {}
    /\ pc = "done" =>
          IF args.eval_during_training
          THEN /\ Cardinality(TestEvaluations) = 1
               /\ \A i \in TestEvaluations :
                     /\ events[i].step = global_step
                     /\ \A j \in 1..Len(events) :
                           events[j].kind \in {"train_step", "save_checkpoint",
                                               "track_metrics"} => j < i
                     /\ \A j \in 1..Len(events) :
                           (events[j].kind = "evaluate" /\ j # i) => j < i
          ELSE Calls("evaluate") = <<>>

\* a run with evaluation enabled has executed steps, saved its last checkpoint
\* and evaluated the test dataloaders
C16_Witness ==
    /\ pc = "done"
    /\ args.eval_during_training
    /\ Calls("save_checkpoint") # <<>>
    /\ \E i \in TestEvaluations :
          /\ events[i].step = args.num_training_steps
          /\ \E j \in At("save_checkpoint", args.num_training_steps) : j < i

\* main has constructed the dataloaders
DataloadersConstructed == op = "main" /\ pc # "main"

\* what get_megatron_gpt_dataloaders was called with
ConstructedWith == Calls("get_megatron_gpt_dataloaders")[1].samples

\* the first training step executed is number g
FirstStepIs(g) ==
    Calls("train_step") # <<>> => Calls("train_step")[1].step = g

\* C17: on resume from a checkpoint saved at step S with consumed_samples N, the
\* dataloaders are constructed with consumed_samples 0 when
\* load_dataloader_state is false and with N when it is true, and training
\* starts from starting_iteration S (first executed step S + 1); with no
\* checkpoint to load they are constructed with 0 and starting_iteration is 0.
C17_Resume ==
    DataloadersConstructed =>
       /\ Len(Calls("get_megatron_gpt_dataloaders")) = 1
       /\ consumed_samples = ConstructedWith
       /\ InLoop => FirstStepIs(starting_iteration + 1)
       /\ IF args.has_load_args
          THEN /\ starting_iteration = args.checkpoint.step
               /\ ConstructedWith = IF args.load_dataloader_state
                                    THEN args.checkpoint.consumed_samples
                                    ELSE 0
          ELSE /\ starting_iteration = 0
               /\ ConstructedWith = 0

\* a checkpoint with a dataloader position has been resumed without it, and the
\* step after the checkpoint's has been executed
C17_Witness ==
    /\ DataloadersConstructed
    /\ args.has_load_args
    /\ ~args.load_dataloader_state
    /\ args.checkpoint.consumed_samples > 0
    /\ ConstructedWith = 0
    /\ Calls("train_step") # <<>>
    /\ Calls("train_step")[1].step = args.checkpoint.step + 1

----------------------------------------------------------------------------
(* Properties of evaluate, checked under SpecEval and SpecTrain. *)

\* evaluate has been called on its own and has returned or raised
EvaluateDone == op = "evaluate" /\ result # NoCall

\* the list of dataloaders is None or empty on this rank and on the first rank
\* of its tensor parallel group
NoneOnAllRanks ==
    /\ args.val_dataloaders.is_none \/ args.val_dataloaders.loaders = <<>>
    /\ (args.dist.tp_world_size > 1 /\ args.dist.tp_rank # 0)
          => args.dist.first_rank_is_none

\* the calls evaluate makes when it evaluates
EvaluationKinds ==
    {"get_next_batch", "forward", "all_reduce_metrics_tracker",
     "track_val_metrics", "model.eval", "model.train"}

\* C18: when the list of validation dataloaders is None or empty on all ranks,
\* evaluate returns without a batch fetched, a forward pass, an all-reduce of
\* metrics or an emission of validation metrics, and without a change of the
\* model's train / eval mode.
C18_NoOp ==
    /\ []((EvaluateDone /\ NoneOnAllRanks) =>
             /\ result.status = "ok"
             /\ result.groups = 0
             /\ \A i \in 1..Len(events) : events[i].kind \notin EvaluationKinds)
    /\ [][(op = "evaluate" /\ NoneOnAllRanks) =>
             model_training' = model_training]_vars

\* the second rank of a tensor parallel group, with an empty list, was told that
\* the first rank has none either, and has returned
C18_Witness ==
    /\ EvaluateDone
    /\ ~args.val_dataloaders.is_none
    /\ args.val_dataloaders.loaders = <<>>
    /\ args.dist.tp_rank = 1
    /\ args.dist.first_rank_is_none
    /\ Len(events) = 1
    /\ events[1].kind = "broadcast_object"
    /\ model_training

\* the positions of the calls of kind k made for the dataloader at position d
ForLoader(k, d) ==
    {i \in 1..Len(events) : events[i].kind = k /\ events[i].loader = d}

\* evaluate was called on a list of dataloaders and did evaluate: its rank is
\* alone in its tensor parallel group and no named groups are configured
EvaluatedUnnamed ==
    /\ EvaluateDone
    /\ args.dist.tp_world_size = 1
    /\ args.group_names = <<NoGroupName>>
    /\ ~args.val_dataloaders.is_none
    /\ args.val_dataloaders.loaders # <<>>

\* C19 as stated: whenever evaluate is not a no-op, every dataloader of the list
\* it was given gets exactly eval_steps batch fetches and forward passes and no
\* backward pass, then exactly one all-reduce and exactly one emission of
\* validation metrics, the sum of the dataloader's per-step metrics divided by
\* eval_steps.
C19_AsStated ==
    EvaluatedUnnamed =>
       /\ result.status = "ok"
       /\ \A i \in 1..Len(events) : events[i].kind # "backward"
       /\ \A d \in 1..Len(args.val_dataloaders.loaders) :
             /\ Cardinality(ForLoader("get_next_batch", d)) = args.eval_steps
             /\ Cardinality(ForLoader("forward", d)) = args.eval_steps
             /\ Cardinality(ForLoader("all_reduce_metrics_tracker", d)) = 1
             /\ Cardinality(ForLoader("track_val_metrics", d)) = 1
             /\ \A i \in ForLoader("all_reduce_metrics_tracker", d) :
                   /\ \A j \in ForLoader("forward", d) : j < i
                   /\ \A j \in ForLoader("track_val_metrics", d) :
                         /\ i < j
                         /\ events[j].summed = [k \in 1..args.eval_steps |-> k]
                         /\ events[j].divisor = args.eval_steps

\* C20: every forward pass made inside evaluate happens with the model in
\* evaluation mode; when evaluate returns after processing one or more dataset
\* groups the model is back in training mode; at every invocation of a training
\* step inside train the model is in training mode.
C20_Modes ==
    /\ [](\A i \in 1..Len(events) : events[i].kind = "forward" => ~events[i].training)
    /\ []((EvaluateDone /\ result.groups >= 1) => model_training)
    /\ [][Len(Calls("forward"))' > Len(Calls("forward")) => model_training']_vars
    /\ [](pc = "loop" => model_training)
    /\ [](\A i \in 1..Len(events) :
             events[i].kind = "train_step" => events[i].training)

\* a training step has been made after an evaluation that made forward passes
C20_Witness ==
    /\ op = "main"
    /\ model_training
    /\ \E i \in 1..Len(events) : \E j \in 1..Len(events) :
          /\ i < j
          /\ events[i].kind = "forward"
          /\ ~events[i].training
          /\ events[j].kind = "train_step"
          /\ events[j].training

----------------------------------------------------------------------------
(* C21: the ranks of a tensor parallel group agree on the no-op decision. *)

\* rank r and rank q are in the same tensor parallel group
Siblings(r, q) == TensorParallelGroup(args, r) = TensorParallelGroup(args, q)

\* the list of rank r is None or empty
LocalListIsNone(r) ==
    args.val_dataloaders[r].is_none \/ args.val_dataloaders[r].loaders = <<>>

\* rank r has returned from evaluate without doing anything
ReturnedAsNoOp(r) ==
    /\ ranks[r].pc = "returned"
    /\ \A i \in 1..Len(ranks[r].log) : ranks[r].log[i].kind = "broadcast_object"

\* rank r has gone past the early return, towards forward passes and
\* collectives
Proceeds(r) ==
    \/ ranks[r].pc \in {"running", "all_reduce", "raised"}
    \/ \E i \in 1..Len(ranks[r].log) : ranks[r].log[i].kind # "broadcast_object"

\* C21: with a tensor parallel world size above 1, every rank that is past
\* the broadcast holds the value the first rank of its tensor parallel group
\* computed from its own list of dataloaders, whatever the rank's own list
\* is, so no rank of a group has returned as a no-op while a sibling of the
\* group proceeds.
C21_Agreement ==
    (op = "evaluate_all" /\ args.tp_world_size > 1) =>
        /\ \A r \in RanksOf(args) :
              ranks[r].decided =>
                 /\ ranks[TensorParallelFirstRank(args, r)].decided
                 /\ ranks[r].is_val_dataloader_none
                      = LocalListIsNone(TensorParallelFirstRank(args, r))
        /\ \A r, q \in RanksOf(args) :
              Siblings(r, q) => ~(ReturnedAsNoOp(r) /\ Proceeds(q))

\* a rank whose own list has a dataloader returned as a no-op because the
\* first rank of its group has none, and another whose own list is None went
\* past the early return because the first rank of its group has one
C21_Witness ==
    /\ op = "evaluate_all"
    /\ args.tp_world_size > 1
    /\ args.dp_world_size > 1
    /\ \E r \in RanksOf(args) :
          /\ TensorParallelRank(args, r) # 0
          /\ ~LocalListIsNone(r)
          /\ ReturnedAsNoOp(r)
    /\ \E q \in RanksOf(args) :
          /\ TensorParallelRank(args, q) # 0
          /\ LocalListIsNone(q)
          /\ ranks[q].decided
          /\ Proceeds(q)

----------------------------------------------------------------------------
(* C22: NEFTune, checked under SpecNeft. *)

\* the configuration asks for NEFTune: training mode and a positive neft_alpha
NeftConfigured ==
    /\ args.mode = "training"
    /\ ~args.neft_alpha.is_none
    /\ args.neft_alpha.value > 0

\* the construction passed the assertions made before the embedding is wrapped
ReachesNeft ==
    /\ args.use_padding_free_transformer
          => (args.supported /\ args.attention_implementation = "flash_attention_2")
    /\ args.has_tokenizer_name
    /\ (args.mode = "training" /\ args.is_encoder_decoder)
          => args.loss_mask = "output_only"

\* get_model or a construction on its own has returned or raised
Constructed ==
    \/ op = "__init__" /\ result # NoCall
    \/ op = "main" /\ pc # "get_model"

\* the construction raised exc
ConstructionRaised(exc) ==
    /\ result # NoCall
    /\ result.status = exc
    /\ op = "main" => events = <<>>

\* C22: the forward of the input embeddings is overridden exactly when the
\* mode is training and neft_alpha is given and positive; such a
\* construction raises Exception when the model has no get_input_embeddings;
\* and with the override every embedding lookup of a forward pass of
\* evaluate is free of noise while every lookup of a train step is noised.
C22_Neft ==
    Constructed =>
        /\ (ReachesNeft /\ NeftConfigured /\ ~args.has_get_input_embeddings)
              => (ConstructionRaised("Exception") /\ ~neft)
        /\ (ReachesNeft /\ NeftConfigured /\ args.has_get_input_embeddings)
              => (neft /\ ~ConstructionRaised("Exception"))
        /\ ~NeftConfigured => (~neft /\ ~ConstructionRaised("Exception"))
        /\ \A i \in 1..Len(events) :
              /\ events[i].kind = "forward" => ~events[i].noised
              /\ events[i].kind = "train_step" => events[i].noised = neft

\* a run with NEFTune: a noised train step, then an evaluation whose forward
\* passes are free of noise, then another noised train step
C22_Witness ==
    /\ op = "main"
    /\ neft
    /\ \E i, j, k \in 1..Len(events) :
          /\ i < j
          /\ j < k
          /\ events[i].kind = "train_step"
          /\ events[i].noised
          /\ events[j].kind = "forward"
          /\ ~events[j].noised
          /\ events[k].kind = "train_step"
          /\ events[k].noised

----------------------------------------------------------------------------
(* C23: what the emitted training loss is a mean of, checked under        *)
(* SpecTrain.                                                             *)

\* C23 as stated: at every emission of training metrics the tracker holds
\* the sum of the metrics of exactly log_interval steps, the log_interval
\* steps that end at the step of the emission, so that the quotient emitted
\* is their mean, for every starting_iteration.
C23_AsStated ==
    op = "main" =>
        \A i \in 1..Len(events) :
            (events[i].kind = "track_metrics" /\ events[i].context = "train") =>
                /\ events[i].divisor = args.log_interval
                /\ events[i].summed
                     = [k \in 1..args.log_interval |->
                           events[i].step - args.log_interval + k]

----------------------------------------------------------------------------
(* C24: consumed_samples in the metadata of a checkpoint, checked under   *)
(* SpecTrain.                                                             *)

\* the train steps this process has executed when position i of events is
\* reached
StepsExecutedBefore(i) ==
    Len(SelectSeq(SubSeq(events, 1, i), LAMBDA e : e.kind = "train_step"))

\* C24 as stated: the consumed_samples stored with every checkpoint is the
\* consumed_samples the dataloaders were constructed with plus the number of
\* steps executed in this process times micro_batch_size *
\* gradient_accumulation_steps * dp_world_size, on a fresh run and on a resume
\* with load_dataloader_state true or false.
C24_AsStated ==
    (op = "main" /\ DataloadersConstructed) =>
        \A i \in 1..Len(events) :
            events[i].kind = "save_checkpoint" =>
                events[i].samples
                  = ConstructedWith + StepsExecutedBefore(i) * SamplesPerStep(args)

----------------------------------------------------------------------------
(* C25: the counter the step time is divided by, checked under SpecTrain. *)

\* control is at the test of a step whose metrics are emitted
AtLogStep ==
    /\ op = "main"
    /\ pc = "log"
    /\ global_step % args.log_interval = 0

\* the position in events of the most recent reset of the timer: the start
\* of the loop, an emission of training metrics or a checkpoint save
LastTimerReset ==
    LET steps == {i \in 1..Len(events) : events[i].kind = "train_step"}
        first == CHOOSE i \in steps : \A j \in steps : i <= j
        resets == {first - 1}
                    \cup {i \in 1..Len(events) :
                            \/ events[i].kind = "save_checkpoint"
                            \/ /\ events[i].kind = "track_metrics"
                               /\ events[i].context = "train"}
    IN  CHOOSE i \in resets : \A j \in resets : j <= i

\* control passes the checkpoint save of an iteration
PassesSave == pc = "save" /\ pc' = "loop"

\* C25: at each log step steps_since_start_time is at least 1 and is the
\* number of train steps executed since the most recent reset of the timer;
\* a checkpoint save resets the timer and that counter and leaves the
\* metrics tracker and global_step as they are.
C25_StepCounter ==
    /\ [](AtLogStep =>
            /\ steps_since_start_time >= 1
            /\ start_time = LastTimerReset
            /\ steps_since_start_time = Len(StepsAfter(LastTimerReset)))
    /\ [][PassesSave =>
            /\ metrics_tracker' = metrics_tracker
            /\ global_step' = global_step
            /\ Len(Calls("save_checkpoint"))' > Len(Calls("save_checkpoint"))
                  => /\ steps_since_start_time' = 0
                     /\ start_time' = Len(events')]_vars

\* a log step of an interval of two steps, with a checkpoint saved after the
\* first of them: one step since the timer was reset, two in the tracker
C25_Witness ==
    /\ AtLogStep
    /\ args.log_interval = 2
    /\ At("save_checkpoint", global_step - 1) # {}
    /\ steps_since_start_time = 1
    /\ Len(metrics_tracker) = 2

----------------------------------------------------------------------------
(* C26: no padding position carries a label, checked under SpecPad. *)

\* the call is decoder-only, padded, output_only, with outputs, and has
\* returned
OutputOnlyReturned ==
    /\ PadDone
    /\ ~args.is_encoder_decoder
    /\ ~args.use_padding_free_transformer
    /\ args.loss_mask = "output_only"
    /\ args.has_outputs
    /\ result.status = "ok"

\* every output row is at most as long as the longest input row
OutputsFitMaxLength ==
    \A i \in 1..Len(args.outputs) : Len(args.outputs[i]) <= MaxLength(args.inputs)

\* wherever the attention mask is 0 the label is the sentinel
PaddingIsMasked ==
    \A i \in 1..Len(result.attention_mask) :
        /\ Len(result.labels[i]) = Len(result.attention_mask[i])
        /\ \A k \in 1..Len(result.attention_mask[i]) :
              result.attention_mask[i][k] = 0
                 => result.labels[i][k] = labels_mask_value

\* under left padding every labels row has width max_length and ends with
\* its output row
LeftLabelsEndWithOutput ==
    args.padding_side = "left" =>
        \A i \in 1..Len(args.outputs) :
            LET m == Len(args.outputs[i])
                max_length == MaxLength(args.inputs)
                row == result.labels[i]
            IN  /\ Len(row) = max_length
                /\ SubSeq(row, max_length - m + 1, max_length) = args.outputs[i]

\* C26 as stated: in decoder-only, non-packed, output_only mode, for both
\* padding sides and every batch in which each output row is no longer than
\* the longest input row, the label is the sentinel wherever the attention
\* mask is 0, and under left padding each labels row has width max_length
\* with output_i in its last len(output_i) positions.
C26_AsStated ==
    (OutputOnlyReturned /\ OutputsFitMaxLength) =>
        (PaddingIsMasked /\ LeftLabelsEndWithOutput)

\* C26 amended: the same, for the batches in which no output row is longer
\* than its own input row.
C26_PaddingMasked ==
    (OutputOnlyReturned /\ OutputsFitInputs) =>
        (PaddingIsMasked /\ LeftLabelsEndWithOutput)

\* a left-padded batch whose first row is padded by two positions and carries
\* an output of one token
C26_Witness ==
    /\ OutputOnlyReturned
    /\ OutputsFitInputs
    /\ args.padding_side = "left"
    /\ Len(args.inputs) = 2
    /\ Len(args.inputs[1]) = 1
    /\ Len(args.inputs[2]) = 3
    /\ result.attention_mask[1] = <<0, 0, 1>>
    /\ result.labels[1] = <<labels_mask_value, labels_mask_value, 11>>

----------------------------------------------------------------------------
(* C27: evaluate called by all ranks together, checked under SpecRanks. *)

\* rank r has left evaluate, by a return or by an exception
HasLeft(r) == ranks[r].pc \in {"returned", "raised"}

\* rank r is inside an all-reduce
InAllReduce(r) == ranks[r].pc = "all_reduce"

\* C27 as stated: when all ranks call evaluate together the call terminates
\* on every rank, for every assignment of dataloaders to the ranks and every
\* topology: every rank takes part in each all-reduce or none does, so no
\* rank is inside an all-reduce that a rank which has left evaluate will
\* never enter.
C27_AsStated ==
    op = "evaluate_all" =>
        \A r, q \in RanksOf(args) : ~(InAllReduce(r) /\ HasLeft(q))

=========================================================================
